---- MODULE Spec2Model ----
(***************************************************************************)
(* Olympic Games dashboard: the CSV cleaning scripts (utils/cleaning.py,   *)
(* pre-traitement/cleaning.py), the merging script (utils/merging.py) and  *)
(* the Overview page's filter re-aggregation (pages/1_Overview.py).        *)
(*                                                                         *)
(* A table is a sequence of records (row order as in the DataFrame); a    *)
(* CSV file is a record [exists, rows].  pandas' NaN in a text column is  *)
(* the value NaN below; a raw numeric cell is a tagged record so that      *)
(* pd.to_numeric(errors='coerce') has something to reject.                 *)
(***************************************************************************)
EXTENDS Integers, Sequences, FiniteSets, TLC

VARIABLES
    files,      \* data/ directory: file name -> [exists, rows]
    pc,         \* position of the running script or page
    log,        \* notices printed / st.warning / st.error so far
    data,       \* the dictionary a page or load_all_data holds
    selected,   \* the Overview sidebar widgets
    shown       \* filtered_medals_total of the Overview page

vars == <<files, pc, log, data, selected, shown>>

(***************************************************************************)
(* Bounds of the model.                                                    *)
(***************************************************************************)
MaxRawRows == 2        \* rows of a raw medals_total.csv

(***************************************************************************)
(* Generic table helpers (pandas primitives).                              *)
(***************************************************************************)
NaN == "NaN"

BoundedSeq(S, n) == UNION {[1..k -> S] : k \in 0..n}

Range(s) == {s[i] : i \in 1..Len(s)}

\* the rows of s at the indexes in I, in their order in s
RowsAt(s, I) ==
    LET F[i \in 0..Len(s)] ==
            IF i = 0 THEN <<>>
            ELSE IF i \in I THEN Append(F[i - 1], s[i]) ELSE F[i - 1]
    IN  F[Len(s)]

\* DataFrame.drop_duplicates(subset=..., keep='first'), keys[i] being the
\* subset columns of row i; NaN keys compare equal
drop_duplicates(s, keys) ==
    RowsAt(s, {i \in 1..Len(s) : \A j \in 1..(i - 1) : keys[j] # keys[i]})

\* Series.fillna(value) on one cell
fillna(v, value) == IF v = NaN THEN value ELSE v

\* Series.sum() of a sequence of integers
Sum(s) ==
    LET F[i \in 0..Len(s)] == IF i = 0 THEN 0 ELSE F[i - 1] + s[i]
    IN  F[Len(s)]

NoFile == [exists |-> FALSE, rows |-> <<>>]
File(rows) == [exists |-> TRUE, rows |-> rows]

(***************************************************************************)
(* utils/cleaning.py: clean_medals_total                                   *)
(***************************************************************************)
\* a raw numeric cell: a number, a non-numeric text, or an empty cell
Num(n) == [k |-> "num", v |-> n]
Txt == [k |-> "txt", v |-> 0]
Empty == [k |-> "na", v |-> 0]

\* pd.to_numeric(col, errors='coerce').fillna(0).astype(int)
to_numeric_fill0(c) == IF c.k = "num" THEN c.v ELSE 0

Total_calculated(r) == r.Gold_Medal + r.Silver_Medal + r.Bronze_Medal

\* lines 219-230: dedup on country_code, fill defaults, coerce the four counts
medals_total_coerced(raw) ==
    LET d == drop_duplicates(raw, [i \in 1..Len(raw) |-> raw[i].country_code])
    IN  [i \in 1..Len(d) |->
            [country_code |-> fillna(d[i].country_code, "UNK"),
             country      |-> fillna(d[i].country, "Unknown"),
             Gold_Medal   |-> to_numeric_fill0(d[i].Gold_Medal),
             Silver_Medal |-> to_numeric_fill0(d[i].Silver_Medal),
             Bronze_Medal |-> to_numeric_fill0(d[i].Bronze_Medal),
             Total        |-> to_numeric_fill0(d[i].Total)]]

\* line 234: not df['Total'].equals(df['Total_calculated'])
total_mismatch(d) == \E i \in 1..Len(d) : d[i].Total # Total_calculated(d[i])

\* a cleaner that trusts the Total column as read
clean_medals_total_trusting(raw) ==
    SelectSeq(medals_total_coerced(raw), LAMBDA r : r.Total > 0)

\* the table clean_medals_total writes to medals_total_cleaned.csv
clean_medals_total(raw) ==
    LET d == medals_total_coerced(raw)
        fixed == IF total_mismatch(d)
                 THEN [i \in 1..Len(d) |->
                          [d[i] EXCEPT !.Total = Total_calculated(d[i])]]
                 ELSE d
    IN  SelectSeq(fixed, LAMBDA r : r.Total > 0)

(***************************************************************************)
(* utils/cleaning.py: clean_medals                                         *)
(***************************************************************************)
\* str.upper() on the medal type labels the model draws
upper(t) ==
    CASE t = "Gold Medal"   -> "GOLD MEDAL"
      [] t = "Silver Medal" -> "SILVER MEDAL"
      [] t = "Bronze Medal" -> "BRONZE MEDAL"
      [] t = "gold"         -> "GOLD"
      [] t = "Gold"         -> "GOLD"
      [] t = "Unknown"      -> "UNKNOWN"
      [] OTHER              -> t

\* Series.map(medal_mapping): NaN for a label that is not a key
medal_mapping(t) ==
    CASE t = "GOLD"   -> "Gold"
      [] t = "SILVER" -> "Silver"
      [] t = "BRONZE" -> "Bronze"
      [] OTHER        -> NaN

\* the table clean_medals writes to medals_cleaned.csv
clean_medals(raw) ==
    LET d == drop_duplicates(raw, raw)
    IN  [i \in 1..Len(d) |->
            LET t == fillna(d[i].medal_type, "Unknown")
            IN  [d[i] EXCEPT
                   !.country_code = fillna(d[i].country_code, "UNK"),
                   !.country = fillna(d[i].country, "Unknown"),
                   !.discipline = fillna(d[i].discipline, "Unknown"),
                   !.medal_type = fillna(medal_mapping(upper(t)), t)]]

(***************************************************************************)
(* utils/cleaning.py: clean_nocs                                           *)
(***************************************************************************)
\* the entries of the static continent_mapping for the codes the model
\* draws; Series.map gives NaN for any other code
continent_mapping(code) ==
    CASE code = "USA" -> "North America"
      [] code = "FRA" -> "Europe"
      [] OTHER -> NaN

\* the table clean_nocs writes to nocs_cleaned.csv
clean_nocs(raw) ==
    LET d == drop_duplicates(raw, [i \in 1..Len(raw) |-> raw[i].code])
    IN  [i \in 1..Len(d) |->
            LET code == fillna(d[i].code, "UNK")
            IN  [code      |-> code,
                 country   |-> fillna(d[i].country, "Unknown"),
                 continent |-> fillna(continent_mapping(code), "Unknown")]]

(***************************************************************************)
(* CSV round trip: DataFrame.to_csv(index=False) then pd.read_csv.         *)
(***************************************************************************)
\* text cells pd.read_csv turns into NaN (its default na_values)
NA_VALUES == {NaN, "", "NA", "N/A", "n/a", "nan", "null", "NULL", "None"}

\* the table read back from a file: the text columns pass through na_values
read_csv(f, textcols) ==
    [i \in 1..Len(f.rows) |->
        [c \in DOMAIN f.rows[i] |->
            IF c \in textcols /\ f.rows[i][c] \in NA_VALUES
            THEN NaN ELSE f.rows[i][c]]]

(***************************************************************************)
(* utils/merging.py                                                        *)
(***************************************************************************)
\* DataFrame.merge(how='inner'): a left row without a match is dropped
inner_merge(left, joined, nulls) ==
    LET F[i \in 0..Len(left)] ==
            IF i = 0 THEN <<>>
            ELSE F[i - 1] \o [j \in 1..Len(joined[i]) |-> left[i] @@ joined[i][j]]
    IN  F[Len(left)]

\* DataFrame.merge(how='left'): row i of left with each row of joined[i]
\* (the right rows its key matches, in right order), or with nulls if none
left_merge(left, joined, nulls) ==
    LET F[i \in 0..Len(left)] ==
            IF i = 0 THEN <<>>
            ELSE F[i - 1] \o
                 (IF joined[i] = <<>> THEN <<left[i] @@ nulls>>
                  ELSE [j \in 1..Len(joined[i]) |-> left[i] @@ joined[i][j]])
    IN  F[Len(left)]

\* the rows of right whose keys[j] equals key (NaN matches NaN)
matching(right, keys, key) ==
    RowsAt(right, {j \in 1..Len(right) : keys[j] = key})

\* nocs[['code', 'continent']] joined on country_code = code; the nocs code
\* arrives as column codecol
merge_nocs(left, nocs, codecol) ==
    LET keys == [j \in 1..Len(nocs) |-> nocs[j].code]
        cols(n) == (codecol :> n.code) @@ [continent |-> n.continent]
    IN  left_merge(left,
            [i \in 1..Len(left) |->
                LET m == matching(nocs, keys, left[i].country_code)
                IN  [j \in 1..Len(m) |-> cols(m[j])]],
            (codecol :> NaN) @@ [continent |-> NaN])

\* DataFrame.drop(col, axis=1, errors='ignore')
drop_column(rows, col) ==
    [i \in 1..Len(rows) |-> [c \in DOMAIN rows[i] \ {col} |-> rows[i][c]]]

\* Series.map(medal_rank) of create_medals_enriched
medal_rank(medal_type) ==
    CASE medal_type = "Gold" -> Num(1)
      [] medal_type = "Silver" -> Num(2)
      [] medal_type = "Bronze" -> Num(3)
      [] OTHER -> Empty

\* the table create_medals_enriched writes to medals_enriched.csv
create_medals_enriched(medals, nocs, athletes) ==
    LET m1 == drop_column(merge_nocs(medals, nocs, "code_noc"), "code_noc")
        akeys == [j \in 1..Len(athletes) |-> athletes[j].code]
        m2 == left_merge(m1,
                 [i \in 1..Len(m1) |->
                     LET m == matching(athletes, akeys, m1[i].code)
                     IN  [j \in 1..Len(m) |-> [age |-> m[j].age]]],
                 [age |-> Empty])
    IN  [i \in 1..Len(m2) |->
            m2[i] @@ [medal_rank |-> medal_rank(m2[i].medal_type),
                      is_gold    |-> IF m2[i].medal_type = "Gold" THEN 1 ELSE 0,
                      is_silver  |-> IF m2[i].medal_type = "Silver" THEN 1 ELSE 0,
                      is_bronze  |-> IF m2[i].medal_type = "Bronze" THEN 1 ELSE 0]]

\* numpy round half to even of a / d, for d > 0
round_half_even(a, d) ==
    LET q == a \div d
        r == a % d
    IN  IF 2 * r < d THEN q
        ELSE IF 2 * r > d THEN q + 1
        ELSE IF q % 2 = 0 THEN q ELSE q + 1

Inf == [k |-> "inf", v |-> 0]

\* n / d as pandas divides two integer columns, rounded to units of
\* 1/scale: NaN for 0/0, infinity for n/0
divide(n, d, scale) ==
    IF d = 0 THEN (IF n = 0 THEN Empty ELSE Inf)
    ELSE IF d > 0 THEN Num(round_half_even(scale * n, d))
    ELSE Num(round_half_even(scale * (0 - n), 0 - d))

\* a ratio column without its fillna(0)
ratio_without_fillna(n, total) == divide(n, total, 1000)

\* (n / total).fillna(0).round(3), in thousandths
ratio(n, total) ==
    LET q == divide(n, total, 1000)
    IN  IF q = Empty THEN Num(0) ELSE q

medal_quality_score(r) ==
    r.Gold_Medal * 3 + r.Silver_Medal * 2 + r.Bronze_Medal * 1

\* a ranking whose ties share the maximum rank of their group
rank_max(vals, i) ==
    Cardinality({j \in 1..Len(vals) : vals[j] >= vals[i]})

\* Series.rank(method='min', ascending=False).astype(int) at row i
rank_min(vals, i) ==
    1 + Cardinality({j \in 1..Len(vals) : vals[j] > vals[i]})

\* a table left in the order of its rows
keep_order(rows, keys) == rows

\* DataFrame.sort_values(col, ascending=False), keys[i] being the column's
\* value in row i; equal keys keep their order
sort_values_desc(rows, keys) ==
    LET n == Len(rows)
        pos(i) == 1 + Cardinality({j \in 1..n :
                        keys[j] > keys[i] \/ (keys[j] = keys[i] /\ j < i)})
    IN  [p \in 1..n |-> rows[CHOOSE i \in 1..n : pos(i) = p]]

\* lines 159-193 of create_medals_total_enriched and 238-272 of
\* get_filtered_medals_total: ratios, quality score, ranks, sort by Total
add_metrics(rows) ==
    LET n == Len(rows)
        totals == [i \in 1..n |-> rows[i].Total]
        golds == [i \in 1..n |-> rows[i].Gold_Medal]
        quals == [i \in 1..n |-> medal_quality_score(rows[i])]
        full == [i \in 1..n |->
                   rows[i] @@
                   [gold_ratio   |-> ratio(rows[i].Gold_Medal, rows[i].Total),
                    silver_ratio |-> ratio(rows[i].Silver_Medal, rows[i].Total),
                    bronze_ratio |-> ratio(rows[i].Bronze_Medal, rows[i].Total),
                    medal_quality_score |-> quals[i],
                    rank_by_total   |-> rank_min(totals, i),
                    rank_by_gold    |-> rank_min(golds, i),
                    rank_by_quality |-> rank_min(quals, i)]]
    IN  sort_values_desc(full, totals)

\* the table create_medals_total_enriched writes
create_medals_total_enriched(medals_total, nocs) ==
    add_metrics(merge_nocs(medals_total, nocs, "code"))

\* sorted(): the order of the group keys of groupby('continent')
ContinentOrder ==
    <<"Africa", "Asia", "Europe", "Multiple", "North America", "Oceania",
      "South America", "Unknown">>

\* the table create_continent_summary writes: groupby drops NaN keys
create_continent_summary(mte) ==
    LET present == {mte[i].continent : i \in 1..Len(mte)}
        groups == SelectSeq(ContinentOrder, LAMBDA c : c \in present)
        members(c) == SelectSeq(mte, LAMBDA r : r.continent = c)
        col(c, f) == Sum([i \in 1..Len(members(c)) |-> members(c)[i][f]])
        agg == [g \in 1..Len(groups) |->
                  LET c == groups[g]
                      num == Len(SelectSeq(members(c),
                                    LAMBDA r : r.country_code # NaN))
                  IN  [continent     |-> c,
                       Gold_Medal    |-> col(c, "Gold_Medal"),
                       Silver_Medal  |-> col(c, "Silver_Medal"),
                       Bronze_Medal  |-> col(c, "Bronze_Medal"),
                       Total         |-> col(c, "Total"),
                       num_countries |-> num,
                       gold_ratio    |-> ratio(col(c, "Gold_Medal"),
                                               col(c, "Total")),
                       avg_medals_per_country |->
                           divide(col(c, "Total"), num, 100)]]
    IN  sort_values_desc(agg, [g \in 1..Len(agg) |-> agg[g].Total])

\* the files of the data/ directory the model follows
FileNames ==
    {"medals_total.csv", "medals_total_cleaned.csv", "medals_cleaned.csv",
     "nocs_cleaned.csv", "athletes_cleaned.csv", "events_cleaned.csv",
     "medals_enriched.csv",
     "medals_total_enriched.csv", "continent_summary.csv"}

NoFiles == [f \in FileNames |-> NoFile]

Idle == [none |-> TRUE]

\* the country name the drawn tables give a country code
CountryName(code) ==
    CASE code = "USA" -> "United States"
      [] code = "FRA" -> "France"
      [] code = "UNK" -> "Unknown"
      [] OTHER -> NaN

\* the raw rows a medals_total.csv is drawn from
RawTotalsRows ==
    {[country_code |-> c, country |-> CountryName(c), Gold_Medal |-> g,
      Silver_Medal |-> s, Bronze_Medal |-> b, Total |-> t] :
        c \in {"USA", NaN}, g \in {Num(0), Num(1), Empty},
        s \in {Num(0), Num(1)}, b \in {Num(0), Num(1)},
        t \in {Num(1), Num(2), Txt}}

(***************************************************************************)
(* SpecClean: clean_medals_total run on any raw medals_total.csv.          *)
(***************************************************************************)
InitClean ==
    /\ \E raw \in BoundedSeq(RawTotalsRows, MaxRawRows) :
          files = [NoFiles EXCEPT !["medals_total.csv"] = File(raw)]
    /\ pc = "clean_medals_total"
    /\ log = {}
    /\ data = Idle
    /\ selected = Idle
    /\ shown = Idle

\* clean_medals_total(): read, clean, print the notice, write the artifact
CleanMedalsTotal ==
    /\ pc = "clean_medals_total"
    /\ files["medals_total.csv"].exists
    /\ LET raw == files["medals_total.csv"].rows
       IN  /\ files' = [files EXCEPT !["medals_total_cleaned.csv"] =
                                        File(clean_medals_total(raw))]
           /\ log' = IF total_mismatch(medals_total_coerced(raw))
                     THEN log \cup {"Total column mismatch detected"}
                     ELSE log
    /\ pc' = "done"
    /\ UNCHANGED <<data, selected, shown>>

NextClean == CleanMedalsTotal

SpecClean == InitClean /\ [][NextClean]_vars

\* C1: after clean_medals_total every row of the cleaned MedalTotals table
\* has Total = Gold Medal + Silver Medal + Bronze Medal, whatever the raw
\* table held (wrong, missing or non-numeric totals included).
C1_TotalIsSum ==
    files["medals_total_cleaned.csv"].exists =>
        \A r \in Range(files["medals_total_cleaned.csv"].rows) :
            r.Total = r.Gold_Medal + r.Silver_Medal + r.Bronze_Medal

\* a cleaned, non-empty table whose raw Total column was wrong in one row
\* and non-numeric in another
C1_Witness ==
    /\ files["medals_total_cleaned.csv"].exists
    /\ Len(files["medals_total_cleaned.csv"].rows) = 2
    /\ \E r \in Range(files["medals_total.csv"].rows) : r.Total = Txt
    /\ \E r \in Range(files["medals_total.csv"].rows) :
          /\ r.Total = Num(2)
          /\ r.Gold_Medal = Num(1) /\ r.Silver_Medal = Num(0)
          /\ r.Bronze_Medal = Num(0)

(***************************************************************************)
(* SpecMerge: utils/merging.py main() after the cleaning script has run.   *)
(***************************************************************************)
MaxNocs == 2           \* rows of a raw nocs.csv
MaxTotalsRows == 2     \* rows of the medals_total.csv the merge starts from
MaxMedalRows == 2      \* rows of medals_cleaned.csv

RawNocsRows == {[code |-> c, country |-> CountryName(c)] : c \in {"USA", "FRA", NaN}}

MergeTotalsRows ==
    {[country_code |-> c, country |-> CountryName(c), Gold_Medal |-> Num(g),
      Silver_Medal |-> Num(1), Bronze_Medal |-> Num(0), Total |-> Num(g + 1)] :
        c \in {"USA", "FRA", NaN}, g \in {0, 1}}

\* rows of medals_cleaned.csv: clean_medals has filled every text column
MedalsCleanedRows ==
    {[code |-> "A1", country_code |-> c, country |-> CountryName(c),
      discipline |-> "Swimming", medal_type |-> t] :
        c \in {"USA", "FRA", "UNK"}, t \in {"Gold Medal", "Silver Medal"}}

AthletesCleaned == {<<>>, <<[code |-> "A1", age |-> Num(25)]>>}

InitMerge ==
    /\ \E nocs \in BoundedSeq(RawNocsRows, MaxNocs),
          totals \in BoundedSeq(MergeTotalsRows, MaxTotalsRows),
          medals \in BoundedSeq(MedalsCleanedRows, MaxMedalRows),
          athletes \in AthletesCleaned :
          files = [NoFiles EXCEPT
                     !["nocs_cleaned.csv"] = File(clean_nocs(nocs)),
                     !["medals_total_cleaned.csv"] =
                         File(clean_medals_total(totals)),
                     !["medals_cleaned.csv"] = File(medals),
                     !["athletes_cleaned.csv"] = File(athletes)]
    /\ pc = "create_medals_enriched"
    /\ log = {}
    /\ data = Idle
    /\ selected = Idle
    /\ shown = Idle

NocsCleaned == read_csv(files["nocs_cleaned.csv"], {"code", "country", "continent"})

CreateMedalsEnriched ==
    /\ pc = "create_medals_enriched"
    /\ files["medals_cleaned.csv"].exists
    /\ files["nocs_cleaned.csv"].exists
    /\ files["athletes_cleaned.csv"].exists
    /\ files' = [files EXCEPT !["medals_enriched.csv"] =
          File(create_medals_enriched(
                 read_csv(files["medals_cleaned.csv"],
                          {"code", "country_code", "country", "discipline",
                           "medal_type"}),
                 NocsCleaned,
                 read_csv(files["athletes_cleaned.csv"], {"code"})))]
    /\ pc' = "create_medals_total_enriched"
    /\ UNCHANGED <<log, data, selected, shown>>

CreateMedalsTotalEnriched ==
    /\ pc = "create_medals_total_enriched"
    /\ files["medals_total_cleaned.csv"].exists
    /\ files["nocs_cleaned.csv"].exists
    /\ files' = [files EXCEPT !["medals_total_enriched.csv"] =
          File(create_medals_total_enriched(
                 read_csv(files["medals_total_cleaned.csv"],
                          {"country_code", "country"}),
                 NocsCleaned))]
    /\ pc' = "create_continent_summary"
    /\ UNCHANGED <<log, data, selected, shown>>

MedalsTotalEnriched ==
    read_csv(files["medals_total_enriched.csv"],
             {"country_code", "country", "code", "continent"})

CreateContinentSummary ==
    /\ pc = "create_continent_summary"
    /\ files["medals_total_enriched.csv"].exists
    /\ files' = [files EXCEPT !["continent_summary.csv"] =
          File(create_continent_summary(MedalsTotalEnriched))]
    /\ pc' = "done"
    /\ UNCHANGED <<log, data, selected, shown>>

NextMerge ==
    \/ CreateMedalsEnriched
    \/ CreateMedalsTotalEnriched
    \/ CreateContinentSummary

SpecMerge == InitMerge /\ [][NextMerge]_vars

\* C2: every row of medals_enriched has a non-null continent; a medal whose
\* country_code matches no row of nocs_cleaned gets "Unknown", never NaN.
C2_ContinentNeverNull ==
    files["medals_enriched.csv"].exists =>
        \A r \in Range(files["medals_enriched.csv"].rows) : r.continent # NaN

\* C3: a country of the cleaned MedalTotals table with no continent (its
\* code absent from the NOC table or from the static map) is counted under
\* "Unknown" in continent_summary, and the Totals of continent_summary add
\* up to the Totals of medals_total_enriched.
C3_UnknownBucketKeepsTotals ==
    files["continent_summary.csv"].exists =>
        LET summary == files["continent_summary.csv"].rows
            mte == MedalsTotalEnriched
            nocodes == {n.code : n \in Range(NocsCleaned)}
        IN  /\ (\E r \in Range(files["medals_total_cleaned.csv"].rows) :
                   \/ r.country_code \notin nocodes
                   \/ continent_mapping(r.country_code) = NaN)
               => \E g \in Range(summary) : g.continent = "Unknown"
            /\ Sum([g \in 1..Len(summary) |-> summary[g].Total])
                 = Sum([i \in 1..Len(mte) |-> mte[i].Total])

(***************************************************************************)
(* pages/1_Overview.py: apply_filters and get_filtered_medals_total        *)
(***************************************************************************)
\* 'col' in df.columns (an empty table filters to itself either way)
has_column(df, col) == Len(df) > 0 /\ col \in DOMAIN df[1]

\* the rows of df whose column col is in values (Series.isin; NaN is not)
isin(df, col, values) == SelectSeq(df, LAMBDA r : r[col] \in values)

\* lines 181-187: the medal types the three checkboxes enable
medal_types(sel) ==
    (IF sel.show_gold THEN {"Gold Medal"} ELSE {})
    \cup (IF sel.show_silver THEN {"Silver Medal"} ELSE {})
    \cup (IF sel.show_bronze THEN {"Bronze Medal"} ELSE {})

\* nocs codes whose column col is in values (lines 139 and 149)
noc_codes(nocs, col, values) == {n.code : n \in Range(isin(nocs, col, values))}

\* apply_filters(df, filter_type) for the filter types 'medals_total',
\* 'events' and 'medals', under the widget values sel
apply_filters(df, filter_type, sel, nocs) ==
    LET f1 == IF sel.countries = {} THEN df
              ELSE IF has_column(df, "country")
                   THEN isin(df, "country", sel.countries)
              ELSE IF has_column(df, "country_long")
                      /\ has_column(df, "country_code")
                   THEN isin(df, "country_code",
                             noc_codes(nocs, "country", sel.countries))
              ELSE df
        f2 == IF sel.continents = {} THEN f1
              ELSE IF has_column(f1, "continent")
                   THEN isin(f1, "continent", sel.continents)
              ELSE IF has_column(f1, "country_code")
                   THEN isin(f1, "country_code",
                             noc_codes(nocs, "continent", sel.continents))
              ELSE f1
        f3 == IF sel.sports = {} \/ filter_type \notin {"events", "medals"}
              THEN f2
              ELSE IF has_column(f2, "sport")
                   THEN isin(f2, "sport", sel.sports)
              ELSE IF has_column(f2, "discipline")
                   THEN isin(f2, "discipline", sel.sports)
              ELSE f2
    IN  IF filter_type = "medals" /\ has_column(f3, "medal_type")
           /\ medal_types(sel) # {}
        THEN isin(f3, "medal_type", medal_types(sel))
        ELSE f3

\* sorted order of the country codes the model draws (groupby key order)
CodeOrder == <<"FRA", "UNK", "USA">>

CodeIndex(c) == CHOOSE i \in 1..Len(CodeOrder) : CodeOrder[i] = c

\* lines 212-274: per-country recount of the filtered medal rows.  groupby
\* drops the rows with a NaN key and sorts the groups; the pivot's absent
\* medal columns are added as 0
reaggregate(filtered_medals) ==
    LET valid == SelectSeq(filtered_medals, LAMBDA r :
                     /\ r.country_code # NaN /\ r.country # NaN
                     /\ r.continent # NaN /\ r.medal_type # NaN)
        key(r) == [country_code |-> r.country_code, country |-> r.country,
                   continent |-> r.continent]
        keys == [i \in 1..Len(valid) |-> key(valid[i])]
        first == drop_duplicates(keys, keys)
        index == sort_values_desc(first,
                    [g \in 1..Len(first) |-> 0 - CodeIndex(first[g].country_code)])
        count(k, t) == Len(SelectSeq(valid,
                           LAMBDA r : key(r) = k /\ r.medal_type = t))
        medal_pivot == [g \in 1..Len(index) |->
            LET k == index[g]
                gold == count(k, "Gold Medal")
                silver == count(k, "Silver Medal")
                bronze == count(k, "Bronze Medal")
            IN  k @@ [Gold_Medal |-> gold, Silver_Medal |-> silver,
                      Bronze_Medal |-> bronze,
                      Total |-> gold + silver + bronze,
                      code |-> k.country_code]]
    IN  add_metrics(medal_pivot)

\* a get_filtered_medals_total that always recounts
get_filtered_medals_total_recount(d, sel) ==
    LET filtered_medals == apply_filters(d.medals, "medals", sel, d.nocs)
    IN  IF Len(filtered_medals) = 0 THEN <<>>
        ELSE reaggregate(filtered_medals)

\* get_filtered_medals_total() over the loaded tables d and the widgets sel
get_filtered_medals_total(d, sel) ==
    LET filtered_medals == apply_filters(d.medals, "medals", sel, d.nocs)
    IN  IF sel.sports = {}
        THEN apply_filters(d.medals_total, "medals_total", sel, d.nocs)
        ELSE IF Len(filtered_medals) = 0 THEN <<>>
        ELSE reaggregate(filtered_medals)

(***************************************************************************)
(* SpecOverview: the Overview page over the artifacts of a pipeline run;   *)
(* every widget change reruns the script.                                  *)
(***************************************************************************)
MaxPageRows == 2       \* rows of medals_total.csv plus rows of medals_cleaned.csv

\* raw nocs.csv: with and without the row of France
PageNocs ==
    {<<[code |-> "USA", country |-> "United States"],
       [code |-> "FRA", country |-> "France"]>>,
     <<[code |-> "USA", country |-> "United States"]>>}

PageTotalsRows ==
    {[country_code |-> c, country |-> CountryName(c), Gold_Medal |-> Num(g),
      Silver_Medal |-> Num(1), Bronze_Medal |-> Num(0), Total |-> Num(g + 1)] :
        c \in {"USA", "FRA"}, g \in {0, 1}}

PageMedalRows ==
    {[code |-> "A1", country_code |-> c, country |-> CountryName(c),
      discipline |-> d, medal_type |-> t] :
        c \in {"USA", "FRA"}, d \in {"Swimming", "Judo"},
        t \in {"Gold Medal", "Silver Medal"}}

EventsCleaned == <<[event |-> "Men's 100m Freestyle", sport |-> "Swimming"]>>

\* the data/ directory after cleaning.py and merging.py ran on the raw tables
PipelineFiles(nocs_raw, totals_raw, medals_raw, athletes) ==
    LET f0 == [NoFiles EXCEPT
                 !["nocs_cleaned.csv"] = File(clean_nocs(nocs_raw)),
                 !["medals_total_cleaned.csv"] = File(clean_medals_total(totals_raw)),
                 !["medals_cleaned.csv"] = File(clean_medals(medals_raw)),
                 !["athletes_cleaned.csv"] = File(athletes),
                 !["events_cleaned.csv"] = File(EventsCleaned)]
        nocs == read_csv(f0["nocs_cleaned.csv"], {"code", "country", "continent"})
        medals == read_csv(f0["medals_cleaned.csv"],
                     {"code", "country_code", "country", "discipline", "medal_type"})
        totals == read_csv(f0["medals_total_cleaned.csv"], {"country_code", "country"})
        mte == create_medals_total_enriched(totals, nocs)
    IN  [f0 EXCEPT
           !["medals_enriched.csv"] =
               File(create_medals_enriched(medals, nocs,
                        read_csv(f0["athletes_cleaned.csv"], {"code"}))),
           !["medals_total_enriched.csv"] = File(mte),
           !["continent_summary.csv"] =
               File(create_continent_summary(
                        read_csv(File(mte), {"country_code", "country",
                                             "code", "continent"})))]

InitOverview ==
    /\ \E nocs \in PageNocs,
          totals \in BoundedSeq(PageTotalsRows, MaxPageRows),
          medals \in BoundedSeq(PageMedalRows, MaxPageRows) :
          /\ Len(totals) + Len(medals) <= MaxPageRows
          /\ files = PipelineFiles(nocs, totals, medals, <<>>)
    /\ pc = "load_data"
    /\ log = {}
    /\ data = Idle
    /\ selected = Idle
    /\ shown = Idle

\* the widgets' default values (lines 94-121)
DefaultWidgets ==
    [countries |-> {}, continents |-> {}, sports |-> {},
     show_gold |-> TRUE, show_silver |-> TRUE, show_bronze |-> TRUE]

\* load_data() and the first run of the script
LoadData ==
    /\ pc = "load_data"
    /\ \A f \in {"athletes_cleaned.csv", "nocs_cleaned.csv", "events_cleaned.csv",
                 "medals_total_enriched.csv", "medals_enriched.csv",
                 "continent_summary.csv"} : files[f].exists
    /\ data' = [athletes |-> read_csv(files["athletes_cleaned.csv"], {"code"}),
                nocs |-> NocsCleaned,
                events |-> read_csv(files["events_cleaned.csv"], {"event", "sport"}),
                medals_total |-> MedalsTotalEnriched,
                medals |-> read_csv(files["medals_enriched.csv"],
                              {"code", "country_code", "country", "discipline",
                               "medal_type", "continent"}),
                continent_summary |-> read_csv(files["continent_summary.csv"],
                                               {"continent"})]
    /\ selected' = DefaultWidgets
    /\ shown' = get_filtered_medals_total(data', DefaultWidgets)
    /\ pc' = "page"
    /\ UNCHANGED <<files, log>>

\* a rerun of the script with the widget values sel (line 280)
Rerun(sel) ==
    /\ pc = "page"
    /\ selected' = sel
    /\ shown' = get_filtered_medals_total(data, sel)
    /\ UNCHANGED <<files, pc, log, data>>

SelectCountries ==
    \E S \in SUBSET {n.country : n \in Range(data.nocs)} :
        Rerun([selected EXCEPT !.countries = S])

SelectContinents ==
    \E S \in SUBSET {n.continent : n \in Range(data.nocs)} :
        Rerun([selected EXCEPT !.continents = S])

SelectSports ==
    \E S \in SUBSET {e.sport : e \in Range(data.events)} :
        Rerun([selected EXCEPT !.sports = S])

ToggleGold == Rerun([selected EXCEPT !.show_gold = ~selected.show_gold])

ToggleSilver == Rerun([selected EXCEPT !.show_silver = ~selected.show_silver])

ToggleBronze == Rerun([selected EXCEPT !.show_bronze = ~selected.show_bronze])

NextOverview ==
    \/ LoadData
    \/ (pc = "page" /\ SelectCountries)
    \/ (pc = "page" /\ SelectContinents)
    \/ (pc = "page" /\ SelectSports)
    \/ (pc = "page" /\ ToggleGold)
    \/ (pc = "page" /\ ToggleSilver)
    \/ (pc = "page" /\ ToggleBronze)

SpecOverview == InitOverview /\ [][NextOverview]_vars

NoFilters ==
    /\ selected.countries = {} /\ selected.continents = {}
    /\ selected.sports = {}
    /\ selected.show_gold /\ selected.show_silver /\ selected.show_bronze

\* number of rows of medals of country code c and medal type t
CountOf(medals, c, t) ==
    Len(SelectSeq(medals, LAMBDA m : m.country_code = c /\ m.medal_type = t))

\* the precomputed table d.medals_total agrees with the medal rows d.medals
Agree(d) ==
    /\ \A r \in Range(d.medals_total) :
          /\ r.Gold_Medal = CountOf(d.medals, r.country_code, "Gold Medal")
          /\ r.Silver_Medal = CountOf(d.medals, r.country_code, "Silver Medal")
          /\ r.Bronze_Medal = CountOf(d.medals, r.country_code, "Bronze Medal")
    /\ \A m \in Range(d.medals) :
          \E r \in Range(d.medals_total) : r.country_code = m.country_code

\* C4: for every combination of country, continent, sport and medal-type
\* selections the per-country Gold/Silver/Bronze/Total returned by
\* get_filtered_medals_total are a recount of the medal rows that pass
\* apply_filters(medals, 'medals'), never the precomputed totals.  (Stated
\* where the precomputed table agrees with the unfiltered medal rows and
\* every medal row has a continent, so a difference comes from the filters
\* and neither from the two input files nor from a null group key.)
C4_AlwaysRecounted ==
    (/\ pc = "page"
     /\ Agree(data)
     /\ \A m \in Range(data.medals) : m.continent # NaN) =>
        LET fm == apply_filters(data.medals, "medals", selected, data.nocs)
        IN  /\ \A r \in Range(shown) :
                  /\ r.Gold_Medal = CountOf(fm, r.country_code, "Gold Medal")
                  /\ r.Silver_Medal = CountOf(fm, r.country_code, "Silver Medal")
                  /\ r.Bronze_Medal = CountOf(fm, r.country_code, "Bronze Medal")
                  /\ r.Total = r.Gold_Medal + r.Silver_Medal + r.Bronze_Medal
            /\ \A m \in Range(fm) :
                  \E r \in Range(shown) : r.country_code = m.country_code

\* C6: with no country, continent or sport selected and the three medal
\* types enabled, get_filtered_medals_total returns exactly the table
\* create_medals_total_enriched wrote: same rows, totals, ratios and ranks.
C6_NoFilterIsStatic ==
    (pc = "page" /\ NoFilters) => shown = MedalsTotalEnriched

\* the unfiltered page over a non-empty static table that the medal rows
\* would not reproduce
C6_Witness ==
    /\ pc = "page" /\ NoFilters
    /\ Len(shown) >= 1
    /\ Len(data.medals) >= 1
    /\ ~Agree(data)

(***************************************************************************)
(* SpecReagg: the static table and the recount of the page side by side,   *)
(* over raw medal rows with the labels of both vocabularies.               *)
(***************************************************************************)
MaxReaggRows == 3      \* rows of medals_total.csv plus rows of medals.csv

ReaggTotalsRows ==
    {[country_code |-> c, country |-> CountryName(fillna(c, "UNK")),
      Gold_Medal |-> Num(1), Silver_Medal |-> Num(n), Bronze_Medal |-> Num(n),
      Total |-> Num(1 + 2 * n)] :
        c \in {"USA", "FRA", NaN}, n \in {0, 1}}

ReaggMedalRows ==
    {[code |-> "A1", country_code |-> c, country |-> CountryName(c),
      discipline |-> "Swimming", medal_type |-> t] :
        c \in {"USA", "FRA"}, t \in {"Gold Medal", "Silver Medal", "Bronze Medal"}}
    \cup {[code |-> "A1", country_code |-> "FRA", country |-> "France",
           discipline |-> "Swimming", medal_type |-> "gold"]}

InitReagg ==
    /\ \E nocs \in PageNocs,
          totals \in BoundedSeq(ReaggTotalsRows, MaxReaggRows),
          medals \in BoundedSeq(ReaggMedalRows, MaxReaggRows) :
          /\ Len(totals) + Len(medals) <= MaxReaggRows
          /\ files = PipelineFiles(nocs, totals, medals, <<>>)
    /\ pc = "load_data"
    /\ log = {}
    /\ data = Idle
    /\ selected = Idle
    /\ shown = Idle

NextReagg ==
    \/ LoadData
    \/ (pc = "page" /\ SelectSports)
    \/ (pc = "page" /\ ToggleGold)
    \/ (pc = "page" /\ ToggleSilver)
    \/ (pc = "page" /\ ToggleBronze)

SpecReagg == InitReagg /\ [][NextReagg]_vars

\* the labels under which the repository writes each medal type
GoldLabels == {"Gold", "Gold Medal"}

SilverLabels == {"Silver", "Silver Medal"}

BronzeLabels == {"Bronze", "Bronze Medal"}

\* number of rows of medals of country code c with a label in labels
CountIn(medals, c, labels) ==
    Len(SelectSeq(medals, LAMBDA m : m.country_code = c /\ m.medal_type \in labels))

\* the rows get_filtered_medals_total recounts
FilteredMedals == apply_filters(data.medals, "medals", selected, data.nocs)

Recounting == pc = "page" /\ selected.sports # {}

\* C5: re-aggregating medal rows yields one row per country of those rows,
\* with gold/silver/bronze the number of its rows of each medal type,
\* Total their sum, medal_quality_score 3*gold + 2*silver + bronze and
\* rank_by_total 1 + the number of countries with a greater Total; the rows
\* (USA, Gold), (USA, Silver), (FRA, Gold) yield USA 1,1,0,2,5,rank 1 and
\* FRA 1,0,0,1,3,rank 2.
C5_Reaggregation ==
    Recounting =>
        LET fm == FilteredMedals
            codes == {m.country_code : m \in Range(fm)}
            gold(c) == CountIn(fm, c, GoldLabels)
            silver(c) == CountIn(fm, c, SilverLabels)
            bronze(c) == CountIn(fm, c, BronzeLabels)
            total(c) == gold(c) + silver(c) + bronze(c)
            summary(r) == <<r.country_code, r.Gold_Medal, r.Silver_Medal,
                            r.Bronze_Medal, r.Total, r.medal_quality_score,
                            r.rank_by_total>>
            expected(c) == <<c, gold(c), silver(c), bronze(c), total(c),
                             3 * gold(c) + 2 * silver(c) + bronze(c),
                             1 + Cardinality({b \in codes : total(b) > total(c)})>>
        IN  /\ Len(shown) = Cardinality(codes)
            /\ {summary(r) : r \in Range(shown)} = {expected(c) : c \in codes}
            /\ (/\ Len(fm) = 3
                /\ gold("USA") = 1 /\ silver("USA") = 1 /\ gold("FRA") = 1) =>
                   {summary(r) : r \in Range(shown)} =
                       {<<"USA", 1, 1, 0, 2, 5, 1>>, <<"FRA", 1, 0, 0, 1, 3, 2>>}

RatioRows == IF Recounting THEN Range(data.medals_total) \cup Range(shown)
             ELSE Range(data.medals_total)

\* C7: in every row of medals_total_enriched and of the re-aggregated table
\* the three ratios are numbers (never NaN, never infinite); they sum to 1
\* within the rounding of three terms to 3 decimals when Total > 0 and are
\* all 0 when Total = 0.  Ratios are in thousandths.
C7_RatiosSumToOne ==
    pc = "page" =>
        \A r \in RatioRows :
            /\ r.gold_ratio.k = "num" /\ r.silver_ratio.k = "num"
            /\ r.bronze_ratio.k = "num"
            /\ r.Total > 0 =>
                  r.gold_ratio.v + r.silver_ratio.v + r.bronze_ratio.v
                      \in 999..1001
            /\ r.Total = 0 =>
                  /\ r.gold_ratio = Num(0) /\ r.silver_ratio = Num(0)
                  /\ r.bronze_ratio = Num(0)

\* a static row of three thirds next to a recounted row without any medal
\* of the three counted labels
C7_Witness ==
    /\ Recounting
    /\ \E r \in Range(data.medals_total) :
          r.Total = 3 /\ r.gold_ratio = Num(333) /\ r.silver_ratio = Num(333)
    /\ \E r \in Range(shown) : r.Total = 0 /\ r.gold_ratio = Num(0)

\* rank_by_total of table t is monotone in Total and is the min rank
RankedByTotal(t) ==
    \A a, b \in 1..Len(t) :
        /\ t[a].Total > t[b].Total => t[a].rank_by_total <= t[b].rank_by_total
        /\ t[a].Total = t[b].Total => t[a].rank_by_total = t[b].rank_by_total
        /\ t[a].rank_by_total =
              1 + Cardinality({j \in 1..Len(t) : t[j].Total > t[a].Total})

\* C8: in medals_total_enriched and in the re-aggregated table, a country
\* with a greater Total never has a worse rank_by_total, countries of equal
\* Total share one rank, and that rank is 1 + the number of countries with
\* a strictly greater Total.
C8_RankMonotoneMin ==
    pc = "page" =>
        /\ RankedByTotal(data.medals_total)
        /\ Recounting => RankedByTotal(shown)

\* two recounted countries tied on Total at rank 1 next to a static table
C8_Witness ==
    /\ Recounting
    /\ Len(shown) = 2
    /\ shown[1].Total = shown[2].Total
    /\ shown[1].rank_by_total = 1 /\ shown[2].rank_by_total = 1
    /\ Len(data.medals_total) >= 1

(***************************************************************************)
(* SpecMain: utils/cleaning.py main() over a data/ directory in which any  *)
(* raw file may be absent.  The raw tables are header-only: what matters   *)
(* here is which files are read and written.                               *)
(***************************************************************************)
\* the order in which main() calls the cleaners (lines 487-496)
CleanOrder ==
    <<"athletes", "coaches", "events", "medalists", "medals", "medals_total",
      "nocs", "schedules", "teams", "venues">>

Entities == Range(CleanOrder)

\* what follows the entity at pc in order, or last after the final one
Following(order, e, last) ==
    LET i == CHOOSE k \in 1..Len(order) : order[k] = e
    IN  IF i < Len(order) THEN order[i + 1] ELSE last

\* the table clean_<entity>() writes; every cleaner starts by dropping
\* duplicate rows
clean(entity, raw) ==
    CASE entity = "medals_total" -> clean_medals_total(raw)
      [] entity = "nocs"         -> clean_nocs(raw)
      [] entity = "medals"       -> clean_medals(raw)
      [] OTHER                   -> drop_duplicates(raw, raw)

InitMain ==
    /\ \E present \in SUBSET Entities :
          files = [raw |-> [e \in Entities |->
                              IF e \in present THEN File(<<>>) ELSE NoFile],
                   cleaned |-> [e \in Entities |-> NoFile]]
    /\ pc = CleanOrder[1]
    /\ log = {}
    /\ data = Idle
    /\ selected = Idle
    /\ shown = Idle

\* clean_<pc>() reads its raw file and writes its cleaned file
CleanerCompletes ==
    /\ pc \in Entities
    /\ files.raw[pc].exists
    /\ files' = [files EXCEPT
                   !.cleaned[pc] = File(clean(pc, read_csv(files.raw[pc], {})))]
    /\ log' = log \cup {<<"Cleaned", pc>>}
    /\ pc' = Following(CleanOrder, pc, "summary")
    /\ UNCHANGED <<data, selected, shown>>

\* pd.read_csv raises FileNotFoundError; nothing in main() catches it, the
\* interpreter prints the traceback and exits
CleanerRaisesInMain ==
    /\ pc \in Entities
    /\ ~files.raw[pc].exists
    /\ log' = log \cup {<<"FileNotFoundError", pc>>}
    /\ pc' = "raised"
    /\ UNCHANGED <<files, data, selected, shown>>

\* lines 498-519: the summary over the ten cleaned files
PrintSummary ==
    /\ pc = "summary"
    /\ \A e \in Entities : files.cleaned[e].exists
    /\ log' = log \cup {<<"ALL DATASETS CLEANED SUCCESSFULLY", "main">>}
    /\ pc' = "done"
    /\ UNCHANGED <<files, data, selected, shown>>

NextMain ==
    \/ CleanerCompletes
    \/ CleanerRaisesInMain
    \/ PrintSummary

SpecMain == InitMain /\ [][NextMain]_vars

\* C9: when main() has ended on a directory with exactly one raw file
\* absent, the run was not halted, the cleaned file of every other entity is
\* written and the entity that failed is reported.
C9_OneMissingFileDoesNotHalt ==
    (/\ pc \in {"done", "raised"}
     /\ Cardinality({e \in Entities : ~files.raw[e].exists}) = 1) =>
        /\ pc = "done"
        /\ \A e \in Entities :
              IF files.raw[e].exists THEN files.cleaned[e].exists
              ELSE \E entry \in log : entry[2] = e

(***************************************************************************)
(* SpecLoadAll: pre-traitement/cleaning.py load_all_data() over a data     *)
(* directory in which any raw file may be absent (header-only tables).     *)
(***************************************************************************)
\* the order of the try blocks of load_all_data (lines 325-373)
LoadOrder ==
    <<"athletes", "medals", "medals_total", "medalists", "nocs", "events",
      "schedules", "venues", "coaches", "teams">>

\* the raw files the cleaners read, by stem; schedule is the alternative
\* name clean_schedules tries
RawStems == Entities \cup {"schedule"}

\* the dict load_all_data starts from
EmptyDict == [k \in {} |-> <<>>]

InitLoadAll ==
    /\ \E present \in SUBSET RawStems :
          files = [n \in RawStems |->
                      IF n \in present THEN File(<<>>) ELSE NoFile]
    /\ pc = LoadOrder[1]
    /\ log = {}
    /\ data = EmptyDict
    /\ selected = Idle
    /\ shown = Idle

\* the file a cleaner ends up reading: clean_schedules falls back to
\* schedule.csv (lines 236-241)
source_of(entity, fs) ==
    IF entity = "schedules" /\ ~fs["schedules"].exists THEN "schedule"
    ELSE entity

\* OlympicDataCleaner.clean_<entity>() raises: pd.read_csv on an absent
\* file, except in clean_schedules, which catches FileNotFoundError
cleaner_raises(entity, fs) ==
    entity # "schedules" /\ ~fs[entity].exists

\* an exception nothing catches: it leaves load_all_data at once
propagates(order, e) == "raised"

\* except Exception as e: the function goes on with the next try block
resumes_after(order, e) == Following(order, e, "return")

\* the try branch: data[entity] = cleaner.clean_<entity>()
CleanerReturns ==
    /\ pc \in Entities
    /\ ~cleaner_raises(pc, files)
    /\ LET src == source_of(pc, files)
       IN  IF files[src].exists
           THEN /\ data' = (pc :> drop_duplicates(read_csv(files[src], {}),
                                                  read_csv(files[src], {})))
                            @@ data
                /\ log' = log
           ELSE \* lines 242-244: st.error and an empty DataFrame
                /\ data' = (pc :> <<>>) @@ data
                /\ log' = log \cup {<<"error", "schedules.csv ou schedule.csv non trouve">>}
    /\ pc' = Following(LoadOrder, pc, "return")
    /\ UNCHANGED <<files, selected, shown>>

\* the except branch: st.warning(f"Could not load <entity> data: {e}")
CleanerRaises ==
    /\ pc \in Entities
    /\ cleaner_raises(pc, files)
    /\ log' = log \cup {<<"warning", pc>>}
    /\ pc' = resumes_after(LoadOrder, pc)
    /\ UNCHANGED <<files, data, selected, shown>>

\* return data
ReturnData ==
    /\ pc = "return"
    /\ pc' = "returned"
    /\ UNCHANGED <<files, log, data, selected, shown>>

NextLoadAll ==
    \/ CleanerReturns
    \/ CleanerRaises
    \/ ReturnData

SpecLoadAll == InitLoadAll /\ [][NextLoadAll]_vars

\* C10: load_all_data never ends by an exception, and the dictionary it
\* returns has, for each of the ten entities, no key and a warning naming
\* the entity if its cleaner raised, and the key if its cleaner succeeded,
\* whatever happened to the entities loaded before it.
C10_RaisingCleanerIsSkipped ==
    /\ pc # "raised"
    /\ pc = "returned" =>
          /\ DOMAIN data \subseteq Entities
          /\ \A e \in Entities :
                IF cleaner_raises(e, files)
                THEN <<"warning", e>> \in log /\ e \notin DOMAIN data
                ELSE e \in DOMAIN data

\* the first entity failed and the last one is loaded all the same; both
\* schedule files are absent, which clean_schedules answers with an empty
\* table instead of an exception
C10_Witness ==
    /\ pc = "returned"
    /\ ~files["athletes"].exists
    /\ <<"warning", "athletes">> \in log /\ "athletes" \notin DOMAIN data
    /\ files["teams"].exists /\ "teams" \in DOMAIN data
    /\ ~files["schedules"].exists /\ ~files["schedule"].exists
    /\ "schedules" \in DOMAIN data

(***************************************************************************)
(* utils/cleaning.py: clean_athletes                                       *)
(***************************************************************************)
\* a date cell of a raw table, as written: year, month, day
Date(y, m, d) == [k |-> "date", y |-> y, m |-> m, d |-> d]

is_leap(y) == (y % 4 = 0 /\ y % 100 # 0) \/ y % 400 = 0

days_in_month(y, m) ==
    IF m = 2 THEN (IF is_leap(y) THEN 29 ELSE 28)
    ELSE IF m \in {4, 6, 9, 11} THEN 30 ELSE 31

\* days of the proleptic Gregorian date y-m-d since 1970-01-01
days_from_civil(y, m, d) ==
    LET yy == IF m <= 2 THEN y - 1 ELSE y
        era == yy \div 400
        yoe == yy - era * 400
        mp == (m + 9) % 12
        doy == (153 * mp + 2) \div 5 + d - 1
        doe == yoe * 365 + yoe \div 4 - yoe \div 100 + doy
    IN  era * 146097 + doe - 719468

\* pd.to_datetime(errors='coerce'): the day number of a date that exists,
\* NaT for anything else
to_datetime(cell) ==
    IF /\ cell.k = "date" /\ cell.m \in 1..12
       /\ cell.d \in 1..days_in_month(cell.y, cell.m)
    THEN Num(days_from_civil(cell.y, cell.m, cell.d))
    ELSE Empty

\* the reference date of a cleaner that takes the day it runs on
date_of_run == IF pc = "first" THEN Date(2024, 7, 26) ELSE Date(2025, 7, 26)

\* line 46: pd.Timestamp('2024-07-26'), the opening ceremony
olympics_date == Date(2024, 7, 26)

\* (olympics_date - birth_date).dt.days for a parsed birth_date
days_to_olympics(birth) == to_datetime(olympics_date).v - birth.v

\* lines 47-48: (days / 365.25).round(0).astype('Int64')
age_of(cell) ==
    LET birth == to_datetime(cell)
    IN  IF birth = Empty THEN Empty
        ELSE Num(round_half_even(4 * days_to_olympics(birth), 1461))

\* the columns of athletes.csv the model carries
AthleteColumns ==
    {"code", "name", "name_short", "gender", "country_code", "country",
     "birth_date", "coach"}

\* the columns clean_athletes indexes without looking whether they exist
\* (lines 30-52); the text_columns of lines 55-59 are looked up first
IndexedColumns == AthleteColumns \ {"coach"}

\* a KeyError
KeyError == [raised |-> TRUE, rows |-> <<>>]

Returned(rows) == [raised |-> FALSE, rows |-> rows]

\* clean_athletes() on a raw table t = [columns, rows]: the table it writes
\* to athletes_cleaned.csv, or the KeyError of an absent column
clean_athletes(t) ==
    IF ~(IndexedColumns \subseteq t.columns) THEN KeyError
    ELSE
    LET d == drop_duplicates(t.rows, [i \in 1..Len(t.rows) |-> t.rows[i].code])
    IN  Returned([i \in 1..Len(d) |->
            LET name == fillna(d[i].name, "Unknown")
                country == fillna(d[i].country, "Unknown")
                r == [d[i] EXCEPT
                        !.name = name,
                        !.name_short = fillna(d[i].name_short, name),
                        !.gender = fillna(d[i].gender, "Unknown"),
                        !.country_code = fillna(d[i].country_code, "UNK"),
                        !.country = country,
                        !.birth_date = to_datetime(d[i].birth_date)]
                a == r @@ [age |-> age_of(d[i].birth_date)]
            IN  IF "coach" \in t.columns
                THEN [a EXCEPT !.coach = fillna(a.coach, "N/A")]
                ELSE a])

(***************************************************************************)
(* SpecCleaners: a cleaner of utils/cleaning.py run twice in a row on one  *)
(* raw table, which may lack a column.                                     *)
(***************************************************************************)
MaxCleanerRows == 2    \* rows of the raw table

RawAthletesRows ==
    {[code |-> c, name |-> n, name_short |-> NaN, gender |-> "Female",
      country_code |-> "USA", country |-> "United States",
      birth_date |-> b, coach |-> NaN] :
        c \in {"A1", "A2"}, n \in {"Ann", NaN},
        b \in {Date(2006, 1, 1), Date(2000, 7, 26), Date(2001, 2, 30), Empty}}

RerunTotalsRows ==
    {[country_code |-> c, country |-> CountryName(c), Gold_Medal |-> g,
      Silver_Medal |-> Num(0), Bronze_Medal |-> Num(1), Total |-> t] :
        c \in {"USA", NaN}, g \in {Num(1), Empty}, t \in {Num(2), Txt}}

\* the raw table without the columns in absent
without_columns(rows, absent) ==
    [i \in 1..Len(rows) |->
        [c \in (DOMAIN rows[i]) \ absent |-> rows[i][c]]]

\* clean_<name>() on the raw table t
run_cleaner(name, t) ==
    IF name = "clean_athletes" THEN clean_athletes(t)
    ELSE Returned(clean_medals_total(t.rows))

InitCleaners ==
    /\ \/ \E rows \in BoundedSeq(RawAthletesRows, MaxCleanerRows),
             absent \in {{}} \cup {{c} : c \in AthleteColumns} :
             /\ selected = "clean_athletes"
             /\ files = [raw |-> [columns |-> AthleteColumns \ absent,
                                  rows |-> without_columns(rows, absent)],
                         cleaned |-> NoFile]
       \/ \E rows \in BoundedSeq(RerunTotalsRows, MaxCleanerRows) :
             /\ selected = "clean_medals_total"
             /\ files = [raw |-> [columns |-> {"country_code", "country",
                                     "Gold_Medal", "Silver_Medal",
                                     "Bronze_Medal", "Total"},
                                  rows |-> rows],
                         cleaned |-> NoFile]
    /\ pc = "first"
    /\ log = {}
    /\ data = Idle
    /\ shown = Idle

\* the first run of the cleaner writes its artifact
FirstRun ==
    /\ pc = "first"
    /\ ~run_cleaner(selected, files.raw).raised
    /\ files' = [files EXCEPT
                   !.cleaned = File(run_cleaner(selected, files.raw).rows)]
    /\ pc' = "second"
    /\ UNCHANGED <<log, data, selected, shown>>

\* the cleaner indexes a column the raw table does not have
RunRaisesKeyError ==
    /\ pc = "first"
    /\ run_cleaner(selected, files.raw).raised
    /\ log' = log \cup {"KeyError"}
    /\ pc' = "raised"
    /\ UNCHANGED <<files, data, selected, shown>>

\* the second run on the same raw table; data keeps what the first wrote
SecondRun ==
    /\ pc = "second"
    /\ ~run_cleaner(selected, files.raw).raised
    /\ data' = files.cleaned
    /\ files' = [files EXCEPT
                   !.cleaned = File(run_cleaner(selected, files.raw).rows)]
    /\ pc' = "done"
    /\ UNCHANGED <<log, selected, shown>>

NextCleaners ==
    \/ FirstRun
    \/ RunRaisesKeyError
    \/ SecondRun

SpecCleaners == InitCleaners /\ [][NextCleaners]_vars

CleanedAthletes ==
    IF selected = "clean_athletes" /\ files.cleaned.exists
    THEN files.cleaned.rows ELSE <<>>

\* C17: every cleaned athlete with a valid birth_date has
\* age = floor(d / 365.25), d being the whole days from birth_date to
\* 2024-07-26; an athlete with an invalid or missing birth_date has no age.
C17_AgeIsFloorOfYears ==
    \A r \in Range(CleanedAthletes) :
        IF r.birth_date = Empty THEN r.age = Empty
        ELSE r.age = Num((4 * (days_from_civil(2024, 7, 26) - r.birth_date.v))
                            \div 1461)

\* the value the cleaner documents for a missing cell of each column
AthleteDefault(column) ==
    CASE column = "country_code" -> "UNK"
      [] column = "coach"        -> "N/A"
      [] column = "birth_date"   -> Empty
      [] OTHER                   -> "Unknown"

\* C18: when a non-key column is absent from the raw athletes table,
\* clean_athletes completes without raising and every cleaned row has that
\* column, filled with its default value.
C18_AbsentColumnIsSynthesized ==
    (/\ selected = "clean_athletes"
     /\ pc # "first"
     /\ "code" \in files.raw.columns) =>
        /\ pc # "raised"
        /\ \A r \in Range(CleanedAthletes) :
              \A c \in AthleteColumns \ files.raw.columns :
                  c \in DOMAIN r /\ r[c] = AthleteDefault(c)

(***************************************************************************)
(* SpecPipeline: a full run, utils/cleaning.py main() then                 *)
(* utils/merging.py main(), over a data/ directory that may hold artifacts *)
(* of an earlier run.  A file is "absent", "stale" (left by an earlier     *)
(* run) or "fresh" (written by this run); an artifact <<x, kind>> stands   *)
(* for the file x_kind.csv and <<x, "raw">> for x.csv.                     *)
(***************************************************************************)
\* a merging main() that summarises the continents first
MergeOrderSummaryFirst ==
    <<"continent_summary", "athletes_enriched", "medals_enriched",
      "medals_total_enriched", "events_enriched", "medalists_enriched",
      "sport_summary", "athlete_medals_summary", "gender_distribution">>

\* the order in which merging main() calls the create_* steps (lines 535-543)
MergeOrder ==
    <<"athletes_enriched", "medals_enriched", "medals_total_enriched",
      "events_enriched", "medalists_enriched", "continent_summary",
      "sport_summary", "athlete_medals_summary", "gender_distribution">>

Cleaned(e) == <<e, "cleaned">>

\* the files create_<step>() loads with pd.read_csv
reads(step) ==
    CASE step = "athletes_enriched" ->
            {Cleaned("athletes"), Cleaned("nocs"), Cleaned("teams"), Cleaned("coaches")}
      [] step = "medals_enriched" ->
            {Cleaned("medals"), Cleaned("nocs"), Cleaned("athletes")}
      [] step = "medals_total_enriched" ->
            {Cleaned("medals_total"), Cleaned("nocs")}
      [] step = "events_enriched" ->
            {Cleaned("events"), Cleaned("schedules"), Cleaned("venues")}
      [] step = "medalists_enriched" ->
            {Cleaned("medalists"), Cleaned("nocs"), Cleaned("events")}
      [] step = "continent_summary" -> {<<"medals_total_enriched", "merged">>}
      [] step = "sport_summary" ->
            {<<"medalists_enriched", "merged">>, <<"events_enriched", "merged">>}
      [] step = "athlete_medals_summary" ->
            {<<"medalists_enriched", "merged">>, <<"athletes_enriched", "merged">>}
      [] step = "gender_distribution" -> {<<"athletes_enriched", "merged">>}

Artifacts ==
    {Cleaned(e) : e \in Entities} \cup {<<m, "merged">> : m \in Range(MergeOrder)}

InitPipeline ==
    /\ \E absent \in {{}} \cup {{e} : e \in Entities},
          stale \in {{}} \cup {{a} : a \in Artifacts} :
          files = [a \in Artifacts \cup {<<e, "raw">> : e \in Entities} |->
                      IF a[2] = "raw"
                      THEN (IF a[1] \in absent THEN "absent" ELSE "stale")
                      ELSE (IF a \in stale THEN "stale" ELSE "absent")]
    /\ pc = CleanOrder[1]
    /\ log = {}
    /\ data = Idle
    /\ selected = Idle
    /\ shown = Idle

\* clean_<pc>(): reads <pc>.csv, writes <pc>_cleaned.csv
CleanStep ==
    /\ pc \in Entities
    /\ files[<<pc, "raw">>] # "absent"
    /\ files' = [files EXCEPT ![Cleaned(pc)] = "fresh"]
    /\ pc' = Following(CleanOrder, pc, MergeOrder[1])
    /\ UNCHANGED <<log, data, selected, shown>>

\* clean_<pc>() raises FileNotFoundError and the cleaning script ends
CleanStepRaises ==
    /\ pc \in Entities
    /\ files[<<pc, "raw">>] = "absent"
    /\ pc' = "raised"
    /\ UNCHANGED <<files, log, data, selected, shown>>

\* create_<pc>(): loads its inputs, writes <pc>.csv; log keeps what each
\* step read and in which state it found it
MergeStep ==
    /\ pc \in Range(MergeOrder)
    /\ \A a \in reads(pc) : files[a] # "absent"
    /\ log' = log \cup {<<pc, a, files[a]>> : a \in reads(pc)}
    /\ files' = [files EXCEPT ![<<pc, "merged">>] = "fresh"]
    /\ pc' = Following(MergeOrder, pc, "done")
    /\ UNCHANGED <<data, selected, shown>>

NextPipeline ==
    \/ CleanStep
    \/ CleanStepRaises
    \/ MergeStep

SpecPipeline == InitPipeline /\ [][NextPipeline]_vars

\* C12: in a full run every create_* step reads only artifacts written
\* earlier in the same run, and has read all its inputs when the run ends:
\* medals_total_enriched before continent_summary, medalists_enriched and
\* events_enriched before sport_summary, medalists_enriched and
\* athletes_enriched before athlete_medals_summary, athletes_enriched
\* before gender_distribution.
C12_StagesInDependencyOrder ==
    /\ \A entry \in log : entry[3] = "fresh"
    /\ pc \in Range(MergeOrder) =>
          \A a \in reads(pc) : files[a] = "fresh"
    /\ pc = "done" =>
          \A step \in Range(MergeOrder) : \A a \in reads(step) :
              <<step, a, "fresh">> \in log

\* a finished run over a directory that held a medals_total_enriched.csv of
\* an earlier run: continent_summary read the one this run wrote
C12_Witness ==
    /\ pc = "done"
    /\ <<"continent_summary", <<"medals_total_enriched", "merged">>, "fresh">> \in log
    /\ <<"sport_summary", <<"events_enriched", "merged">>, "fresh">> \in log
    /\ <<"gender_distribution", <<"athletes_enriched", "merged">>, "fresh">> \in log

(***************************************************************************)
(* utils/merging.py: create_athletes_enriched, and SpecEnrich, the         *)
(* enrichment steps of merging main() in their order.                      *)
(***************************************************************************)
\* lines 52-61: the dict from athlete code to column col of the last team
\* row that lists the code; athletes_codes is the cell split on ';', NaN
\* for a team without codes
team_lookup(teams, code, col) ==
    LET listing == {j \in 1..Len(teams) :
                       /\ teams[j].athletes_codes # NaN
                       /\ code \in Range(teams[j].athletes_codes)}
    IN  IF listing = {} THEN NaN
        ELSE teams[CHOOSE j \in listing : \A k \in listing : k <= j][col]

\* the table create_athletes_enriched writes
create_athletes_enriched(athletes, nocs, teams) ==
    LET m == drop_column(merge_nocs(athletes, nocs, "code_noc"), "code_noc")
    IN  [i \in 1..Len(m) |->
            LET team_coaches == team_lookup(teams, m[i].code, "coaches")
            IN  m[i] @@
                [team_name |-> team_lookup(teams, m[i].code, "team"),
                 team_coaches |-> team_coaches,
                 all_coaches |->
                    IF m[i].coach # NaN /\ m[i].coach # "N/A" THEN m[i].coach
                    ELSE IF team_coaches # NaN THEN team_coaches
                    ELSE "N/A"]]

MaxJoinRows == 2       \* rows of the three left tables together

EnrichAthletesRows ==
    {[code |-> c, country_code |-> cc, coach |-> co, age |-> Num(25)] :
        c \in {"A1", "A2"}, cc \in {"USA", "UNK"}, co \in {"N/A", "Bob"}}

TeamsCleaned ==
    {<<>>, <<[team |-> "USA Relay", athletes_codes |-> <<"A1">>, coaches |-> "Carl"],
             [team |-> "USA Eight", athletes_codes |-> NaN, coaches |-> NaN]>>}

InitEnrich ==
    /\ \E nocs \in PageNocs, teams \in TeamsCleaned,
          totals \in BoundedSeq(MergeTotalsRows, MaxJoinRows),
          medals \in BoundedSeq(MedalsCleanedRows, MaxJoinRows),
          athletes \in BoundedSeq(EnrichAthletesRows, MaxJoinRows) :
          /\ Len(totals) + Len(medals) + Len(athletes) <= MaxJoinRows
          /\ \A i, j \in 1..Len(athletes) :
                athletes[i].code = athletes[j].code => i = j
          /\ files = [f \in FileNames \cup {"teams_cleaned.csv",
                            "coaches_cleaned.csv", "athletes_enriched.csv"} |->
                CASE f = "nocs_cleaned.csv" -> File(clean_nocs(nocs))
                  [] f = "medals_total_cleaned.csv" -> File(clean_medals_total(totals))
                  [] f = "medals_cleaned.csv" -> File(medals)
                  [] f = "athletes_cleaned.csv" -> File(athletes)
                  [] f = "teams_cleaned.csv" -> File(teams)
                  [] f = "coaches_cleaned.csv" -> File(<<>>)
                  [] OTHER -> NoFile]
    /\ pc = "create_athletes_enriched"
    /\ log = {}
    /\ data = Idle
    /\ selected = Idle
    /\ shown = Idle

AthletesCleanedFile ==
    read_csv(files["athletes_cleaned.csv"], {"code", "country_code", "coach"})

CreateAthletesEnriched ==
    /\ pc = "create_athletes_enriched"
    /\ \A f \in {"athletes_cleaned.csv", "nocs_cleaned.csv",
                 "teams_cleaned.csv", "coaches_cleaned.csv"} : files[f].exists
    /\ files' = [files EXCEPT !["athletes_enriched.csv"] =
          File(create_athletes_enriched(
                 AthletesCleanedFile, NocsCleaned,
                 read_csv(files["teams_cleaned.csv"], {"team", "coaches"})))]
    /\ pc' = "create_medals_enriched"
    /\ UNCHANGED <<log, data, selected, shown>>

NextEnrich ==
    \/ CreateAthletesEnriched
    \/ CreateMedalsEnriched
    \/ CreateMedalsTotalEnriched
    \/ CreateContinentSummary

SpecEnrich == InitEnrich /\ [][NextEnrich]_vars

\* every row of left is in enriched as often as in left, with its values
Preserved(left, enriched) ==
    \A i \in 1..Len(left) :
        Cardinality({j \in 1..Len(left) : left[j] = left[i]}) <=
        Cardinality({j \in 1..Len(enriched) :
            /\ DOMAIN left[i] \subseteq DOMAIN enriched[j]
            /\ \A c \in DOMAIN left[i] : enriched[j][c] = left[i][c]})

\* C13: the enrichment joins drop no left-side row: every row of
\* athletes_cleaned is in athletes_enriched, every row of medals_cleaned in
\* medals_enriched and every row of medals_total_cleaned in
\* medals_total_enriched, matched on the right side or not.
C13_LeftRowsPreserved ==
    /\ files["athletes_enriched.csv"].exists =>
          Preserved(AthletesCleanedFile, files["athletes_enriched.csv"].rows)
    /\ files["medals_enriched.csv"].exists =>
          Preserved(read_csv(files["medals_cleaned.csv"],
                       {"code", "country_code", "country", "discipline", "medal_type"}),
                    files["medals_enriched.csv"].rows)
    /\ files["medals_total_enriched.csv"].exists =>
          Preserved(read_csv(files["medals_total_cleaned.csv"],
                       {"country_code", "country"}),
                    files["medals_total_enriched.csv"].rows)

\* the three enriched tables written, with an athlete and a medal of a
\* country code that no nocs row carries
C13_Witness ==
    /\ files["medals_total_enriched.csv"].exists
    /\ \E r \in Range(files["athletes_enriched.csv"].rows) :
          r.country_code = "UNK" /\ r.continent = NaN
    /\ \E r \in Range(files["medals_enriched.csv"].rows) :
          r.country_code = "FRA" /\ r.continent = NaN

(***************************************************************************)
(* utils/merging.py: create_events_enriched, and SpecEvents.  A start_date *)
(* is a Date or NaN; the column is written in one ISO format, so the order *)
(* of the strings sort_values compares is the order of the days.           *)
(***************************************************************************)
\* a table left as merged
unsorted(rows) == rows

\* line 225: sort_values('start_date'), ascending, NaN last
sort_by_start_date(rows) ==
    LET n == Len(rows)
        dated(i) == rows[i].start_date # Empty
        day(i) == to_datetime(rows[i].start_date).v
        before(j, i) ==
            \/ dated(j) /\ ~dated(i)
            \/ dated(j) /\ dated(i) /\ day(j) < day(i)
            \/ /\ dated(j) = dated(i)
               /\ (dated(i) => day(j) = day(i))
               /\ j < i
        pos(i) == 1 + Cardinality({j \in 1..n : before(j, i)})
    IN  [p \in 1..n |-> rows[CHOOSE i \in 1..n : pos(i) = p]]

\* the table create_events_enriched writes
create_events_enriched(events, schedules, venues) ==
    LET skeys == [j \in 1..Len(schedules) |-> schedules[j].event]
        m1 == left_merge(events,
                 [i \in 1..Len(events) |->
                     LET m == matching(schedules, skeys, events[i].event)
                     IN  [j \in 1..Len(m) |->
                            [start_date |-> m[j].start_date, venue |-> m[j].venue]]],
                 [start_date |-> Empty, venue |-> NaN])
        sorted == sort_by_start_date(m1)
        first == drop_duplicates(sorted,
                    [i \in 1..Len(sorted) |-> <<sorted[i].event, sorted[i].sport>>])
        vkeys == [j \in 1..Len(venues) |-> venues[j].venue]
        m2 == left_merge(first,
                 [i \in 1..Len(first) |->
                     LET m == matching(venues, vkeys, first[i].venue)
                     IN  [j \in 1..Len(m) |-> [latitude |-> m[j].latitude]]],
                 [latitude |-> Empty])
    IN  [i \in 1..Len(m2) |->
            m2[i] @@
            [start_day |-> IF m2[i].start_date = Empty THEN Empty
                           ELSE Num(m2[i].start_date.d),
             start_month |-> IF m2[i].start_date = Empty THEN Empty
                             ELSE Num(m2[i].start_date.m)]]

MaxScheduleRows == 3   \* rows of schedules_cleaned.csv

EventsCleanedRows ==
    {[event |-> "100m", sport |-> "Swimming"],
     [event |-> "100m", sport |-> "Athletics"],
     [event |-> "Relay", sport |-> "Swimming"]}

SchedulesCleanedRows ==
    {[event |-> e, start_date |-> d, venue |-> "Arena"] :
        e \in {"100m", "Relay"},
        d \in {Date(2024, 7, 27), Date(2024, 8, 1), Empty}}

VenuesCleaned == {<<>>, <<[venue |-> "Arena", latitude |-> Num(48)]>>}

\* no two rows of s are equal (the table went through drop_duplicates)
Distinct(s) == \A i, j \in 1..Len(s) : s[i] = s[j] => i = j

InitEvents ==
    /\ \E events \in BoundedSeq(EventsCleanedRows, 2),
          schedules \in BoundedSeq(SchedulesCleanedRows, MaxScheduleRows),
          venues \in VenuesCleaned :
          /\ Distinct(events) /\ Distinct(schedules)
          /\ files = [events |-> File(events), schedules |-> File(schedules),
                      venues |-> File(venues), events_enriched |-> NoFile]
    /\ pc = "create_events_enriched"
    /\ log = {}
    /\ data = Idle
    /\ selected = Idle
    /\ shown = Idle

CreateEventsEnriched ==
    /\ pc = "create_events_enriched"
    /\ files.events.exists /\ files.schedules.exists /\ files.venues.exists
    /\ files' = [files EXCEPT !.events_enriched =
          File(create_events_enriched(
                 read_csv(files.events, {"event", "sport"}),
                 read_csv(files.schedules, {"event", "venue"}),
                 read_csv(files.venues, {"venue"})))]
    /\ pc' = "done"
    /\ UNCHANGED <<log, data, selected, shown>>

NextEvents == CreateEventsEnriched

SpecEvents == InitEvents /\ [][NextEvents]_vars

NameOrder == <<"Ann", "Bob">>

\* the group keys (name, continent) in the order groupby sorts them
GroupKeys ==
    LET lc == Len(ContinentOrder)
    IN  [k \in 1..(Len(NameOrder) * lc) |->
            <<NameOrder[((k - 1) \div lc) + 1], ContinentOrder[((k - 1) % lc) + 1]>>]

\* the table create_athlete_medals_summary writes: groupby drops the rows
\* with a NaN key, value_counts().unstack(fill_value=0) counts per medal_type,
\* the athletes are joined on name, the rows sorted and numbered
create_athlete_medals_summary(medalists, athletes) ==
    LET valid == SelectSeq(medalists, LAMBDA r :
                    r.name # NaN /\ r.continent # NaN /\ r.medal_type # NaN)
        present == {<<valid[i].name, valid[i].continent>> : i \in 1..Len(valid)}
        groups == SelectSeq(GroupKeys, LAMBDA g : g \in present)
        count(g, t) == Len(SelectSeq(valid, LAMBDA r :
                          r.name = g[1] /\ r.continent = g[2] /\ r.medal_type = t))
        counted == [k \in 1..Len(groups) |->
                      [name |-> groups[k][1], continent |-> groups[k][2],
                       Gold_Medal |-> count(groups[k], "Gold Medal"),
                       Silver_Medal |-> count(groups[k], "Silver Medal"),
                       Bronze_Medal |-> count(groups[k], "Bronze Medal")]]
        scored == [k \in 1..Len(counted) |->
                     counted[k] @@
                     [total_medals |-> counted[k].Gold_Medal + counted[k].Silver_Medal
                                       + counted[k].Bronze_Medal,
                      medal_quality_score |-> counted[k].Gold_Medal * 3
                                              + counted[k].Silver_Medal * 2
                                              + counted[k].Bronze_Medal * 1]]
        akeys == [j \in 1..Len(athletes) |-> athletes[j].name]
        merged == left_merge(scored,
                     [i \in 1..Len(scored) |->
                         LET m == matching(athletes, akeys, scored[i].name)
                         IN  [j \in 1..Len(m) |-> [code |-> m[j].code]]],
                     [code |-> NaN])
        by_score == sort_values_desc(merged,
                       [i \in 1..Len(merged) |-> merged[i].medal_quality_score])
        sorted == sort_values_desc(by_score,
                       [i \in 1..Len(by_score) |-> by_score[i].total_medals])
    IN  [p \in 1..Len(sorted) |-> sorted[p] @@ [rank |-> p]]

MaxMedalistRows == 3   \* rows of medalists_enriched.csv

MedalistsEnrichedRows ==
    {[name |-> n, continent |-> c, medal_type |-> t] :
        n \in Range(NameOrder), c \in {"Europe", NaN},
        t \in {"Gold Medal", "Silver Medal", "Bronze Medal"}}

AthletesEnriched ==
    {<<[name |-> "Ann", code |-> "A1"], [name |-> "Bob", code |-> "B1"]>>,
     <<[name |-> "Ann", code |-> "A1"], [name |-> "Ann", code |-> "A2"]>>}

InitSummary ==
    /\ \E medalists \in BoundedSeq(MedalistsEnrichedRows, MaxMedalistRows),
          athletes \in AthletesEnriched :
          files = [medalists_enriched |-> File(medalists),
                   athletes_enriched |-> File(athletes),
                   athlete_medals_summary |-> NoFile]
    /\ pc = "create_athlete_medals_summary"
    /\ log = {}
    /\ data = Idle
    /\ selected = Idle
    /\ shown = Idle

CreateAthleteMedalsSummary ==
    /\ pc = "create_athlete_medals_summary"
    /\ files.medalists_enriched.exists /\ files.athletes_enriched.exists
    /\ files' = [files EXCEPT !.athlete_medals_summary =
          File(create_athlete_medals_summary(
                 read_csv(files.medalists_enriched, {"name", "continent", "medal_type"}),
                 read_csv(files.athletes_enriched, {"name", "code"})))]
    /\ pc' = "done"
    /\ UNCHANGED <<log, data, selected, shown>>

NextSummary == CreateAthleteMedalsSummary

SpecSummary == InitSummary /\ [][NextSummary]_vars

\* C15: the rank column of athlete_medals_summary takes each value 1..N
\* once, N being the number of rows, and a row with strictly more
\* total_medals, or as many and a strictly greater medal_quality_score, has
\* the smaller rank.
C15_RankRespectsOrdering ==
    files.athlete_medals_summary.exists =>
        LET out == files.athlete_medals_summary.rows
        IN  /\ {out[i].rank : i \in 1..Len(out)} = 1..Len(out)
            /\ \A i, j \in 1..Len(out) :
                  (\/ out[i].total_medals > out[j].total_medals
                   \/ /\ out[i].total_medals = out[j].total_medals
                      /\ out[i].medal_quality_score > out[j].medal_quality_score)
                      => out[i].rank < out[j].rank

\* Bob, grouped after Ann, has as many medals and the better score
C15_Witness ==
    /\ files.athlete_medals_summary.exists
    /\ \E a, b \in Range(files.athlete_medals_summary.rows) :
          /\ a.name = "Ann" /\ b.name = "Bob"
          /\ a.total_medals = b.total_medals
          /\ a.medal_quality_score < b.medal_quality_score
          /\ b.rank = 1

\* C16: two athletes of athlete_medals_summary with equal total_medals and
\* equal medal_quality_score have the same rank.
C16_TiesShareRank ==
    files.athlete_medals_summary.exists =>
        LET out == files.athlete_medals_summary.rows
        IN  \A i, j \in 1..Len(out) :
               (/\ out[i].name # out[j].name
                /\ out[i].total_medals = out[j].total_medals
                /\ out[i].medal_quality_score = out[j].medal_quality_score)
                   => out[i].rank = out[j].rank

(***************************************************************************)
(* utils/cleaning_athletes.py, and SpecSimulate.  The script runs on the   *)
(* athletes_enriched.csv that create_athletes_enriched wrote; height and   *)
(* weight are whole centimetres and kilograms, so |x| < epsilon is x = 0.  *)
(* The file always has the gender, height and weight columns, which        *)
(* clean_athletes indexes.                                                 *)
(***************************************************************************)
SIMULATION_CONFIG ==
    [Male |-> [height_choices |-> <<175, 183, 190>>,
               weight_choices |-> <<70, 75, 80, 85, 95>>],
     Female |-> [height_choices |-> <<165, 170, 175>>,
                 weight_choices |-> <<55, 60, 65, 70, 75>>]]

\* lines 53-86: NaN becomes 0; a row of a configured gender gets the h-th
\* height choice and the w-th weight choice for a measurement that is 0
apply_simulation(row, h, w) ==
    LET height == IF row.height = Empty THEN Num(0) ELSE row.height
        weight == IF row.weight = Empty THEN Num(0) ELSE row.weight
        filled == [row EXCEPT !.height = height, !.weight = weight]
    IN  IF row.gender \notin DOMAIN SIMULATION_CONFIG THEN filled
        ELSE LET config == SIMULATION_CONFIG[row.gender]
             IN  [filled EXCEPT
                    !.height = IF height.v = 0 THEN Num(config.height_choices[h])
                               ELSE height,
                    !.weight = IF weight.v = 0 THEN Num(config.weight_choices[w])
                               ELSE weight]

MaxMeasuredRows == 2   \* rows of athletes_enriched.csv

MeasuredAthletesRows ==
    {[gender |-> g, height |-> h, weight |-> w, all_coaches |-> c] :
        g \in {"Male", "Female", "Unknown"},
        h \in {Num(0), Num(180), Empty},
        w \in {Num(70), Empty},
        c \in {"N/A", "Carl"}}

InitSimulate ==
    /\ \E f \in {NoFile} \cup
                {File(rows) : rows \in BoundedSeq(MeasuredAthletesRows, MaxMeasuredRows)} :
          files = [athletes_enriched |-> f]
    /\ pc = "enriched"
    /\ log = {}
    /\ data = Idle
    /\ selected = Idle
    /\ shown = Idle

\* lines 34-36: no file, the script returns
FileNotFound ==
    /\ ~files.athletes_enriched.exists
    /\ pc' = "returned"
    /\ UNCHANGED <<files, log, data, selected, shown>>

\* lines 40-93: the file is read, simulated and written over itself
CleanAndSimulateMeasurements ==
    /\ files.athletes_enriched.exists
    /\ LET df == read_csv(files.athletes_enriched, {"gender", "all_coaches"})
       IN  \E hs \in [1..Len(df) -> 1..3], ws \in [1..Len(df) -> 1..5] :
              files' = [files EXCEPT !.athletes_enriched =
                 File([i \in 1..Len(df) |-> apply_simulation(df[i], hs[i], ws[i])])]
    /\ pc' = "simulated"
    /\ UNCHANGED <<log, data, selected, shown>>

NextSimulate == FileNotFound \/ CleanAndSimulateMeasurements

SpecSimulate == InitSimulate /\ [][NextSimulate]_vars

\* C19: an enriched table, once written, is not rewritten with different
\* contents by a step other than its creating stage:
\* clean_and_simulate_measurements leaves athletes_enriched.csv as it was.
C19_EnrichedNeverRewritten ==
    [][files.athletes_enriched.exists =>
          files'.athletes_enriched = files.athletes_enriched]_vars

\* C20: every row of medals_enriched has medal_rank in {1, 2, 3} and exactly
\* one of is_gold, is_silver, is_bronze equal to 1, the one of its
\* medal_rank, whatever medal_type clean_medals wrote.
C20_MedalRankAndFlags ==
    files["medals_enriched.csv"].exists =>
        \A r \in Range(files["medals_enriched.csv"].rows) :
            /\ r.medal_rank \in {Num(1), Num(2), Num(3)}
            /\ r.is_gold + r.is_silver + r.is_bronze = 1
            /\ r.is_gold = 1 <=> r.medal_rank = Num(1)
            /\ r.is_silver = 1 <=> r.medal_rank = Num(2)
            /\ r.is_bronze = 1 <=> r.medal_rank = Num(3)

(***************************************************************************)
(* pages/1_Overview.py, pages/2_Global_Analysis.py and                     *)
(* pages/5_prediction_game.py: loading, and SpecPages.                     *)
(***************************************************************************)
\* a handler that catches only KeyError
excepts_key_error(page) == "KeyError"

\* the exception class the page's handler around its loading names
excepts(page) ==
    CASE page = "Overview" -> "Exception"
      [] page = "Global Analysis" -> "FileNotFoundError"
      [] page = "prediction game" -> "Exception"

\* isinstance(exc, cls) for the exception pd.read_csv raises on a missing file
is_instance(exc, cls) ==
    exc = cls \/ (exc = "FileNotFoundError" /\ cls \in {"OSError", "Exception"})

\* the files the page's loading function reads
required_files(page) ==
    CASE page = "Overview" ->
            {"athletes_cleaned.csv", "nocs_cleaned.csv", "events_cleaned.csv",
             "medals_total_enriched.csv", "medals_enriched.csv",
             "continent_summary.csv"}
      [] page = "Global Analysis" ->
            {"medals_total_enriched.csv", "continent_summary.csv",
             "medals_enriched.csv", "nocs_cleaned.csv", "athletes_enriched.csv"}
      [] page = "prediction game" -> {"medals_enriched.csv"}

\* Series.str.replace(' Medal', '') on the medal types the model draws
without_medal(t) ==
    CASE t = "Gold Medal" -> "Gold"
      [] t = "Silver Medal" -> "Silver"
      [] t = "Bronze Medal" -> "Bronze"
      [] OTHER -> t

\* load_olympic_data on an existing file: dropna on four columns, and the
\* medal column
load_olympic_data(f) ==
    LET kept == SelectSeq(read_csv(f, {"medal_type", "country", "discipline", "event"}),
                   LAMBDA r : /\ r.medal_type # NaN /\ r.country # NaN
                              /\ r.discipline # NaN /\ r.event # NaN)
    IN  [i \in 1..Len(kept) |-> kept[i] @@ [medal |-> without_medal(kept[i].medal_type)]]

Pages == {"Overview", "Global Analysis", "prediction game"}

PageFiles == UNION {required_files(p) : p \in Pages}

GameMedalsEnriched ==
    {<<>>,
     <<[medal_type |-> "Gold Medal", country |-> "France",
        discipline |-> "Judo", event |-> "Men +100 kg"]>>,
     <<[medal_type |-> "Gold Medal", country |-> NaN,
        discipline |-> "Judo", event |-> "Men +100 kg"]>>}

InitPages ==
    /\ \E present \in SUBSET PageFiles, medals \in GameMedalsEnriched :
          files = [f \in PageFiles |->
                     IF f \notin present THEN NoFile
                     ELSE IF f = "medals_enriched.csv" THEN File(medals)
                     ELSE File(<<>>)]
    /\ pc = "start"
    /\ log = {}
    /\ data = Idle
    /\ selected = Idle
    /\ shown = Idle

\* the script of a page from its first line to st.stop() or to its charts
OpenPage(page) ==
    /\ pc = "start"
    /\ selected' = page
    /\ LET missing == \E f \in required_files(page) : ~files[f].exists
           handled == is_instance("FileNotFoundError", excepts(page))
           df == IF missing THEN <<>>
                 ELSE load_olympic_data(files["medals_enriched.csv"])
           stops == IF page = "prediction game" THEN missing \/ Len(df) = 0
                    ELSE missing
       IN  IF missing /\ ~handled
           THEN /\ pc' = "raised"
                /\ shown' = [error |-> FALSE, charts |-> FALSE]
                /\ data' = Idle
           ELSE IF stops
           THEN /\ pc' = "stopped"
                /\ shown' = [error |-> TRUE, charts |-> FALSE]
                /\ data' = Idle
           ELSE /\ pc' = "rendered"
                /\ shown' = [error |-> FALSE, charts |-> TRUE]
                /\ data' = IF page = "prediction game" THEN [df |-> df] ELSE Idle
    /\ UNCHANGED <<files, log>>

OpenOverview == OpenPage("Overview")

OpenGlobalAnalysis == OpenPage("Global Analysis")

OpenPredictionGame == OpenPage("prediction game")

NextPages == OpenOverview \/ OpenGlobalAnalysis \/ OpenPredictionGame

SpecPages == InitPages /\ [][NextPages]_vars

\* C21: a page one of whose required files is absent shows an error and
\* stops: it raises no unhandled exception and renders no chart; the
\* prediction game also stops when the medal table it loaded is empty.
C21_AbsentFileStopsPage ==
    pc # "start" =>
        /\ pc # "raised"
        /\ (\E f \in required_files(selected) : ~files[f].exists)
              => (pc = "stopped" /\ shown.error /\ ~shown.charts)
        /\ (/\ selected = "prediction game"
            /\ files["medals_enriched.csv"].exists
            /\ load_olympic_data(files["medals_enriched.csv"]) = <<>>)
              => (pc = "stopped" /\ shown.error /\ ~shown.charts)

\* Global Analysis opened with only continent_summary.csv missing
C21_Witness ==
    /\ pc = "stopped"
    /\ selected = "Global Analysis"
    /\ \A f \in PageFiles : files[f].exists <=> f # "continent_summary.csv"

(***************************************************************************)
(* pre-traitement/cleaning.py: the NOC exclusion, and SpecExclude.  A raw  *)
(* table is [columns, rows], each row a record over the columns.           *)
(***************************************************************************)
NOC_TO_EXCLUDE == "ISR"

\* Index.str.strip().str.lower() on the column names the model draws
column_name(c) == IF c = "NOC" THEN "noc" ELSE c

\* df.columns = df.columns.str.strip().str.lower()
lower_columns(t) ==
    LET raw_of(c) == CHOOSE x \in t.columns : column_name(x) = c
        cols == {column_name(x) : x \in t.columns}
    IN  [columns |-> cols,
         rows |-> [i \in 1..Len(t.rows) |-> [c \in cols |-> t.rows[i][raw_of(c)]]]]

\* Series.astype(str).str.strip().str.upper() on the cells the model draws
normalize_noc(v) ==
    CASE v = " isr" -> "ISR"
      [] v = NaN -> "NAN"
      [] OTHER -> v

\* Series.str.strip() on the cells the model draws
str_strip(v) ==
    CASE v = " isr" -> "isr"
      [] v = "100m " -> "100m"
      [] OTHER -> v

\* a filter that removes nothing
keep_all(t, noc_column_name) == t

\* OlympicDataCleaner._exclude_noc
exclude_noc(t, noc_column_name) ==
    IF noc_column_name \in t.columns
    THEN [t EXCEPT !.rows = SelectSeq(t.rows, LAMBDA r :
                      normalize_noc(r[noc_column_name]) # NOC_TO_EXCLUDE)]
    ELSE t

\* the column a cleaner hands to _exclude_noc
noc_column(entity, columns) ==
    CASE entity = "athletes" ->
            IF "code_noc" \in columns THEN "code_noc" ELSE "noc"
      [] entity = "nocs" -> "code"
      [] OTHER -> "noc"

NocEntities ==
    {"athletes", "medals", "medals_total", "medalists", "nocs", "coaches", "teams"}

\* OlympicDataCleaner.clean_<entity> on the code and NOC columns: the
\* exclusion, then the duplicates, then the stripping of text columns
clean_excluding(entity, raw) ==
    LET t == lower_columns(raw)
        x == exclude_noc(t, noc_column(entity, t.columns))
    IN  IF entity \in {"athletes", "nocs"} /\ "code" \notin t.columns
        THEN KeyError
        ELSE LET d == IF entity \in {"athletes", "nocs"}
                      THEN drop_duplicates(x.rows,
                              [i \in 1..Len(x.rows) |-> x.rows[i].code])
                      ELSE IF entity = "medals_total" THEN x.rows
                      ELSE drop_duplicates(x.rows, x.rows)
             IN  Returned([columns |-> t.columns,
                           rows |-> IF entity \in {"nocs", "coaches"}
                                    THEN [i \in 1..Len(d) |->
                                            [c \in t.columns |-> str_strip(d[i][c])]]
                                    ELSE d])

MaxNocRows == 2   \* rows of a raw table

NocCells == {"ISR", " isr", "FRA", NaN}

RawNocTables ==
    UNION {[columns : {cols}, rows : BoundedSeq([cols -> NocCells], MaxNocRows)] :
             cols \in {{"code", "noc"}, {"code", "NOC"}, {"code", "code_noc"},
                       {"code"}, {"noc"}}}

InitExclude ==
    /\ \E e \in NocEntities, t \in RawNocTables : files = (e :> t)
    /\ pc = "load_all_data"
    /\ log = {}
    /\ data = EmptyDict
    /\ selected = Idle
    /\ shown = Idle

\* load_all_data: each cleaner under its try; a raising one leaves a warning
LoadAllData ==
    /\ pc = "load_all_data"
    /\ LET raised == {e \in DOMAIN files : clean_excluding(e, files[e]).raised}
       IN  /\ data' = [e \in DOMAIN files \ raised |->
                          clean_excluding(e, files[e]).rows]
           /\ log' = {<<"warning", e>> : e \in (Entities \ DOMAIN files) \cup raised}
    /\ pc' = "returned"
    /\ UNCHANGED <<files, selected, shown>>

NextExclude == LoadAllData

SpecExclude == InitExclude /\ [][NextExclude]_vars

\* C22: in the dictionary load_all_data returns, no row of a table that has
\* its NOC column (code_noc, else noc, for athletes; code for nocs; noc for
\* the others) carries the excluded code once trimmed and upper-cased.
C22_ExcludedNocAbsent ==
    pc = "returned" =>
        \A e \in DOMAIN data \cap NocEntities :
            LET col == noc_column(e, data[e].columns)
            IN  col \in data[e].columns =>
                   \A r \in Range(data[e].rows) :
                       normalize_noc(r[col]) # NOC_TO_EXCLUDE

\* a padded lower-case ISR row under a column named NOC was taken out and
\* the other row kept
C22_Witness ==
    /\ pc = "returned"
    /\ "coaches" \in DOMAIN data
    /\ "NOC" \in files["coaches"].columns
    /\ Len(files["coaches"].rows) = 2
    /\ files["coaches"].rows[1]["NOC"] = " isr"
    /\ Len(data["coaches"].rows) = 1
    /\ data["coaches"].rows[1].noc = "FRA"

(***************************************************************************)
(* utils/cleaning.py: clean_events, and SpecCleanEvents.                   *)
(***************************************************************************)
\* the table clean_events writes: the duplicates go first, on the raw
\* (event, sport), then the missing values are filled and the text stripped
clean_events(raw) ==
    LET d == drop_duplicates(raw,
                [i \in 1..Len(raw) |-> <<raw[i].event, raw[i].sport>>])
    IN  [i \in 1..Len(d) |->
            [d[i] EXCEPT
               !.event = str_strip(fillna(d[i].event, "Unknown Event")),
               !.sport = str_strip(fillna(d[i].sport, "Unknown Sport")),
               !.sport_code = fillna(d[i].sport_code, "UNK")]]

MaxRawEvents == 3   \* rows of events.csv

RawEventsRows ==
    {[event |-> e, sport |-> sp, sport_code |-> c] :
        e \in {"100m", "100m ", NaN}, sp \in {"Swimming", NaN}, c \in {"SWM"}}

InitCleanEvents ==
    /\ \E raw \in BoundedSeq(RawEventsRows, MaxRawEvents) :
          files = [events |-> File(raw), events_cleaned |-> NoFile]
    /\ pc = "clean_events"
    /\ log = {}
    /\ data = Idle
    /\ selected = Idle
    /\ shown = Idle

CleanEvents ==
    /\ pc = "clean_events"
    /\ files' = [files EXCEPT !.events_cleaned =
                    File(clean_events(read_csv(files.events, {"event", "sport"})))]
    /\ pc' = "done"
    /\ UNCHANGED <<log, data, selected, shown>>

NextCleanEvents == CleanEvents

SpecCleanEvents == InitCleanEvents /\ [][NextCleanEvents]_vars

\* C23: no two rows of the cleaned events table share their (event, sport),
\* whatever the raw table, and the first row of the raw table is kept.
C23_CleanedEventKeysUnique ==
    files.events_cleaned.exists =>
        LET out == files.events_cleaned.rows
        IN  /\ \A i, j \in 1..Len(out) :
                  (out[i].event = out[j].event /\ out[i].sport = out[j].sport)
                      => i = j
            /\ Len(files.events.rows) > 0 =>
                  out[1] = clean_events(<<files.events.rows[1]>>)[1]

\* C24: clean_and_simulate_measurements changes only the height and weight
\* cells that are missing or zero: in a Male or Female row each gets a value
\* of the gender's choice list, in another row a missing one may become 0;
\* every other cell of the file is written back as it was.
C24_OnlyMissingMeasurementsChange ==
    [][files.athletes_enriched.exists =>
          LET old == files.athletes_enriched.rows
              new == files'.athletes_enriched.rows
          IN  /\ Len(new) = Len(old)
              /\ \A i \in 1..Len(old) :
                    /\ DOMAIN new[i] = DOMAIN old[i]
                    /\ \A c \in DOMAIN old[i] :
                          IF c \in {"height", "weight"} /\ old[i][c] \in {Empty, Num(0)}
                          THEN IF old[i].gender \in DOMAIN SIMULATION_CONFIG
                               THEN new[i][c].v \in Range(
                                       IF c = "height"
                                       THEN SIMULATION_CONFIG[old[i].gender].height_choices
                                       ELSE SIMULATION_CONFIG[old[i].gender].weight_choices)
                               ELSE new[i][c] \in {old[i][c], Num(0)}
                          ELSE new[i][c] = old[i][c]]_vars

(***************************************************************************)
(* pages/5_prediction_game.py: get_new_question and SpecQuestion, the      *)
(* session and SpecGame.  get_new_question is the set of the questions its *)
(* random draws can give; st.rerun() leaves the script at pc = "run".      *)
(***************************************************************************)
None == [none |-> TRUE]

\* the orders random.shuffle can leave a list of the elements of S in
Perms(S) ==
    {f \in [1..Cardinality(S) -> S] : \A i, j \in 1..Cardinality(S) : f[i] = f[j] => i = j}

\* three wrong answers whatever the difficulty
num_wrong_medium(difficulty) == 3

\* lines 202-207
num_wrong(difficulty) ==
    CASE difficulty = "easy" -> 2
      [] difficulty = "hard" -> 5
      [] OTHER -> 3

Min(a, b) == IF a < b THEN a ELSE b

\* lines 185-221: the questions get_new_question(df, difficulty) can return
get_new_question(df, difficulty) ==
    LET gold_medals == {r \in Range(df) : r.medal = "Gold"}
        all_countries == {r.country : r \in Range(df)}
    IN  IF gold_medals = {} THEN {None}
        ELSE UNION {
               LET other_countries == all_countries \ {question_row.country}
                   n == Min(num_wrong(difficulty), Cardinality(other_countries))
               IN  UNION {
                     {[sport |-> question_row.discipline,
                       event |-> question_row.event,
                       correct_answer |-> question_row.country,
                       options |-> options] :
                        options \in Perms({question_row.country} \cup wrong_answers)} :
                     wrong_answers \in {w \in SUBSET other_countries : Cardinality(w) = n}} :
               question_row \in gold_medals}

\* a row of medals_enriched.csv
Medal(country, medal_type) ==
    [medal_type |-> medal_type, country |-> country,
     discipline |-> "Judo", event |-> "Men +100 kg"]

Difficulties == {"easy", "medium", "hard"}

QuestionTables ==
    {<<Medal("France", "Silver Medal")>>,
     <<Medal("France", "Gold Medal"), Medal("Japan", "Silver Medal")>>,
     <<Medal("France", "Gold Medal"), Medal("Japan", "Gold"),
       Medal("Japan", "Bronze Medal"), Medal("Italy", "Silver Medal"),
       Medal("Spain", "Bronze Medal")>>}

InitQuestion ==
    /\ \E medals \in QuestionTables, d \in Difficulties :
          /\ files = [medals_enriched |-> File(medals)]
          /\ selected = [difficulty |-> d]
    /\ pc = "get_new_question"
    /\ log = {}
    /\ data = Idle
    /\ shown = Idle

GetNewQuestion ==
    /\ pc = "get_new_question"
    /\ \E q \in get_new_question(load_olympic_data(files.medals_enriched),
                                 selected.difficulty) :
          data' = [question |-> q]
    /\ pc' = "returned"
    /\ UNCHANGED <<files, log, selected, shown>>

NextQuestionSpec == GetNewQuestion

SpecQuestion == InitQuestion /\ [][NextQuestionSpec]_vars

MaxQuestions == 2   \* answers given in a session

GameTables ==
    {<<Medal("France", "Silver Medal")>>,
     <<Medal("France", "Gold Medal"), Medal("Japan", "Gold Medal"),
       Medal("Italy", "Silver Medal")>>}

\* lines 272-283
InitGame ==
    /\ \E medals \in GameTables : files = [medals_enriched |-> File(medals)]
    /\ selected = [score |-> 0, total_questions |-> 0, current_question |-> None,
                   answered |-> FALSE, history |-> <<>>, difficulty |-> "medium"]
    /\ pc = "run"
    /\ log = {}
    /\ data = Idle
    /\ shown = Idle

\* a handler that counts every answer as a point
score_always(score, is_correct) == score + 1

\* lines 411-412
score_after(score, is_correct) == IF is_correct THEN score + 1 ELSE score

\* buttons shown whether the question was answered or not
options_shown_always(state) == state.current_question # None

\* lines 369 and 392: the option buttons are on the page
options_shown(state) == state.current_question # None /\ ~state.answered

\* the script from its top to the end of the page: lines 288-292 load the
\* table, lines 365-367 draw a question if there is none
ScriptRun ==
    /\ pc = "run"
    /\ LET df == load_olympic_data(files.medals_enriched)
       IN  IF Len(df) = 0
           THEN /\ pc' = "stopped"
                /\ UNCHANGED selected
           ELSE /\ pc' = "page"
                /\ IF selected.current_question = None
                   THEN \E q \in get_new_question(df, selected.difficulty) :
                           selected' = [selected EXCEPT !.current_question = q,
                                                        !.answered = FALSE]
                   ELSE UNCHANGED selected
    /\ UNCHANGED <<files, log, data, shown>>

\* lines 299-304: the difficulty selectbox
SelectDifficulty ==
    /\ pc = "page"
    /\ \E d \in Difficulties \ {selected.difficulty} :
          selected' = [selected EXCEPT !.difficulty = d]
    /\ pc' = "run"
    /\ UNCHANGED <<files, log, data, shown>>

\* lines 343-349: the reset button
Reset ==
    /\ pc = "page"
    /\ selected' = [selected EXCEPT !.score = 0, !.total_questions = 0,
                                    !.current_question = None,
                                    !.answered = FALSE, !.history = <<>>]
    /\ pc' = "run"
    /\ UNCHANGED <<files, log, data, shown>>

\* lines 403-430: an option button
Answer ==
    /\ pc = "page"
    /\ options_shown(selected)
    /\ selected.total_questions < MaxQuestions
    /\ LET question == selected.current_question
       IN  \E idx \in DOMAIN question.options :
              LET option == question.options[idx]
                  is_correct == (option = question.correct_answer)
              IN  selected' = [selected EXCEPT
                     !.answered = TRUE,
                     !.total_questions = @ + 1,
                     !.score = score_after(@, is_correct),
                     !.history = Append(@,
                        [sport |-> question.sport, event |-> question.event,
                         your_answer |-> option,
                         correct_answer |-> question.correct_answer,
                         correct |-> is_correct,
                         difficulty |-> selected.difficulty])]
    /\ pc' = "run"
    /\ UNCHANGED <<files, log, data, shown>>

\* lines 433-464: the next-question button under the result
NextQuestion ==
    /\ pc = "page"
    /\ selected.current_question # None
    /\ selected.answered /\ Len(selected.history) > 0
    /\ \E q \in get_new_question(load_olympic_data(files.medals_enriched),
                                 selected.difficulty) :
          selected' = [selected EXCEPT !.current_question = q, !.answered = FALSE]
    /\ pc' = "run"
    /\ UNCHANGED <<files, log, data, shown>>

NextGame ==
    \/ ScriptRun
    \/ SelectDifficulty
    \/ Reset
    \/ Answer
    \/ NextQuestion

SpecGame == InitGame /\ [][NextGame]_vars

\* C25: in every state of the session total_questions is the length of the
\* history, score the number of its correct entries, 0 <= score <=
\* total_questions; and the reset button leaves score and total_questions at
\* 0, the history empty, no current question and answered False.
C25_ScoreMatchesHistory ==
    /\ [](/\ selected.total_questions = Len(selected.history)
          /\ selected.score = Cardinality({i \in DOMAIN selected.history :
                                             selected.history[i].correct})
          /\ 0 <= selected.score
          /\ selected.score <= selected.total_questions)
    /\ [][Reset
             => /\ selected'.score = 0
                /\ selected'.total_questions = 0
                /\ selected'.history = <<>>
                /\ selected'.current_question = None
                /\ ~selected'.answered]_vars

\* two answers, the first one wrong and the second one right
C25_Witness ==
    /\ Len(selected.history) = 2
    /\ ~selected.history[1].correct
    /\ selected.history[2].correct
    /\ selected.score = 1

\* C26: the history grows by one entry at a time, only while answered is
\* False and with answered becoming True on the question on screen; and
\* whenever answered is True the history is not empty and its last entry has
\* the correct_answer of the current question.
C26_OneAnswerPerQuestion ==
    /\ [](selected.answered =>
             /\ Len(selected.history) > 0
             /\ selected.current_question # None
             /\ selected.history[Len(selected.history)].correct_answer =
                   selected.current_question.correct_answer)
    /\ [][Len(selected'.history) > Len(selected.history)
             => /\ Len(selected'.history) = Len(selected.history) + 1
                /\ ~selected.answered
                /\ selected'.answered
                /\ selected'.current_question = selected.current_question]_vars

\* an answered question was replaced by the next one, answered in its turn
C26_Witness ==
    /\ pc = "page"
    /\ selected.answered
    /\ Len(selected.history) = 2
    /\ selected.history[1].correct_answer # selected.history[2].correct_answer

(***************************************************************************)
(* utils/scrape-athlete-images.py: the worker threads of                   *)
(* process_athletes_csv_multithreaded on one ProgressCounter, and          *)
(* SpecScrape.  data is the counter, selected the threads: where each is   *)
(* in scrape_single_athlete, whether it found an image, and the value it   *)
(* read for the update it is making.  The updates of lines 369-370 are     *)
(* made without the lock: each is a read and then a write.                 *)
(***************************************************************************)
MaxTasks == 2   \* athletes without image_url, one task each

Tasks == 1..MaxTasks

\* ProgressCounter(total_rows) and the tasks submitted to the executor
InitScrape ==
    /\ data = [current |-> 0, total |-> MaxTasks, success |-> 0, failed |-> 0]
    /\ selected = [t \in Tasks |-> [at |-> "increment", found |-> FALSE, read |-> 0]]
    /\ pc = "running"
    /\ files = Idle
    /\ log = {}
    /\ shown = Idle

\* line 364: counter.increment(success=False), under the lock
Increment ==
    /\ \E t \in Tasks :
          /\ selected[t].at = "increment"
          /\ data' = [data EXCEPT !.current = @ + 1, !.failed = @ + 1]
          /\ selected' = [selected EXCEPT ![t].at = "scrape"]
    /\ UNCHANGED <<files, pc, log, shown>>

\* lines 367-374: scrape_athlete_image returns a URL or None
ScrapeAthleteImage ==
    /\ \E t \in Tasks, image_url \in BOOLEAN :
          /\ selected[t].at = "scrape"
          /\ selected' = [selected EXCEPT
                ![t].found = image_url,
                ![t].at = IF image_url THEN "load_success" ELSE "return"]
    /\ UNCHANGED <<files, pc, log, data, shown>>

\* line 369, counter.success += 1: the read
LoadSuccess ==
    /\ \E t \in Tasks :
          /\ selected[t].at = "load_success"
          /\ selected' = [selected EXCEPT ![t].read = data.success,
                                          ![t].at = "store_success"]
    /\ UNCHANGED <<files, pc, log, data, shown>>

\* line 369: the write
StoreSuccess ==
    /\ \E t \in Tasks :
          /\ selected[t].at = "store_success"
          /\ data' = [data EXCEPT !.success = selected[t].read + 1]
          /\ selected' = [selected EXCEPT ![t].at = "load_failed"]
    /\ UNCHANGED <<files, pc, log, shown>>

\* line 370, counter.failed -= 1: the read
LoadFailed ==
    /\ \E t \in Tasks :
          /\ selected[t].at = "load_failed"
          /\ selected' = [selected EXCEPT ![t].read = data.failed,
                                          ![t].at = "store_failed"]
    /\ UNCHANGED <<files, pc, log, data, shown>>

\* line 370: the write
StoreFailed ==
    /\ \E t \in Tasks :
          /\ selected[t].at = "store_failed"
          /\ data' = [data EXCEPT !.failed = selected[t].read - 1]
          /\ selected' = [selected EXCEPT ![t].at = "return"]
    /\ UNCHANGED <<files, pc, log, shown>>

\* lines 487-493: the executor's with block ends when every task returned
AllCompleted ==
    /\ pc = "running"
    /\ \A t \in Tasks : selected[t].at = "return"
    /\ pc' = "finished"
    /\ UNCHANGED <<files, log, data, selected, shown>>

NextScrape ==
    \/ Increment
    \/ ScrapeAthleteImage
    \/ LoadSuccess
    \/ StoreSuccess
    \/ LoadFailed
    \/ StoreFailed
    \/ AllCompleted

SpecScrape == InitScrape /\ [][NextScrape]_vars

\* C28: once all workers have finished, current is the number of tasks,
\* success + failed = current, and success is the number of tasks that
\* returned an image URL.
C28_NoLostUpdate ==
    pc = "finished" =>
        /\ data.current = MaxTasks
        /\ data.success + data.failed = data.current
        /\ data.success = Cardinality({t \in Tasks : selected[t].found})

(***************************************************************************)
(* utils/merging.py: create_medalists_enriched, and SpecMedalists.         *)
(***************************************************************************)
\* the table create_medalists_enriched writes
create_medalists_enriched(medalists, nocs, events) ==
    LET m1 == drop_column(merge_nocs(medalists, nocs, "code_noc"), "code_noc")
        ekeys == [j \in 1..Len(events) |-> events[j].event]
        m2 == left_merge(m1,
                 [i \in 1..Len(m1) |->
                     LET m == matching(events, ekeys, m1[i].event)
                     IN  [j \in 1..Len(m) |->
                            [sport |-> m[j].sport, sport_code |-> m[j].sport_code]]],
                 [sport |-> NaN, sport_code |-> NaN])
    IN  [i \in 1..Len(m2) |->
            LET birth == to_datetime(m2[i].birth_date)
                medal == to_datetime(m2[i].medal_date)
            IN  m2[i] @@
                [age_at_medal |->
                    IF birth = Empty \/ medal = Empty THEN Empty
                    ELSE Num(round_half_even(4 * (medal.v - birth.v), 1461)),
                 medal_rank |-> medal_rank(m2[i].medal_type)]]

MaxMedalistsCleaned == 2   \* rows of medalists_cleaned.csv

MedalistsCleanedRows ==
    {[name |-> "Ann", country_code |-> c, event |-> e, medal_type |-> "Gold Medal",
      birth_date |-> Date(2000, 7, 26), medal_date |-> d] :
        c \in {"USA", "UNK"}, e \in {"100m", "Relay"},
        d \in {Date(2024, 7, 27), Empty}}

InitMedalists ==
    /\ \E nocs \in PageNocs,
          events \in BoundedSeq(EventsCleanedRows, 2),
          medalists \in BoundedSeq(MedalistsCleanedRows, MaxMedalistsCleaned) :
          /\ \A i, j \in 1..Len(events) : events[i] = events[j] => i = j
          /\ files = [nocs_cleaned |-> File(clean_nocs(nocs)),
                      events_cleaned |->
                         File([i \in 1..Len(events) |->
                                 events[i] @@ [sport_code |-> "UNK"]]),
                      medalists_cleaned |-> File(medalists),
                      medalists_enriched |-> NoFile]
    /\ pc = "create_medalists_enriched"
    /\ log = {}
    /\ data = Idle
    /\ selected = Idle
    /\ shown = Idle

CreateMedalistsEnriched ==
    /\ pc = "create_medalists_enriched"
    /\ files' = [files EXCEPT !.medalists_enriched =
          File(create_medalists_enriched(
                 read_csv(files.medalists_cleaned,
                          {"name", "country_code", "event", "medal_type"}),
                 read_csv(files.nocs_cleaned, {"code", "country", "continent"}),
                 read_csv(files.events_cleaned, {"event", "sport", "sport_code"})))]
    /\ pc' = "done"
    /\ UNCHANGED <<log, data, selected, shown>>

NextMedalists == CreateMedalistsEnriched

SpecMedalists == InitMedalists /\ [][NextMedalists]_vars

\* C29: medalists_enriched has exactly one row per row of medalists_cleaned,
\* also when an event name is in events_cleaned under several sports.
C29_OneRowPerMedalist ==
    files.medalists_enriched.exists =>
        Len(files.medalists_enriched.rows) = Len(files.medalists_cleaned.rows)

\* C30: apply_filters on the medal rows with the three medal toggles
\* un-checked returns the rows it returns with the three checked; with some
\* but not all checked it returns, of the rows the other filters leave,
\* exactly those whose medal_type is a checked one.
C30_NoToggleMeansAllToggles ==
    pc = "page" =>
        LET toggled(g, sv, b) ==
                apply_filters(data.medals, "medals",
                    [selected EXCEPT !.show_gold = g, !.show_silver = sv,
                                     !.show_bronze = b], data.nocs)
            checked(g, sv, b) ==
                (IF g THEN {"Gold Medal"} ELSE {})
                \cup (IF sv THEN {"Silver Medal"} ELSE {})
                \cup (IF b THEN {"Bronze Medal"} ELSE {})
        IN  /\ toggled(FALSE, FALSE, FALSE) = toggled(TRUE, TRUE, TRUE)
            /\ \A g, sv, b \in BOOLEAN :
                  (checked(g, sv, b) # {} /\ ~(g /\ sv /\ b)) =>
                      toggled(g, sv, b) =
                         SelectSeq(toggled(FALSE, FALSE, FALSE),
                                   LAMBDA r : r.medal_type \in checked(g, sv, b))

====
